---- MODULE Spec2Model ----
(***************************************************************************)
(* remoteZone: the decision-and-actuation pipeline of the mobile app.      *)
(*                                                                         *)
(*   - the Automation Bridge (RogersRemoteWebView): changeChannel, the     *)
(*     readiness handshake, the injected digit script, handleMessage and   *)
(*     the watchdog;                                                       *)
(*   - the Session Orchestrator (RogersRemoteProvider), in its two source  *)
(*     versions: the promise-returning changeChannel with its 20 x 500 ms  *)
(*     retry loop, and the boolean changeChannel with one deferred retry;  *)
(*   - the hysteresis / application policy of the HomeScreen auto-change   *)
(*     effect;                                                             *)
(*   - the bridge instances the Session Orchestrator renders, its provider *)
(*     selection and the provider it stores.                               *)
(*                                                                         *)
(* Time is explicit.  Every setTimeout / setInterval of the source is a    *)
(* countdown in milliseconds; a timer fires when its countdown is 0 and    *)
(* time does not advance while one is due.  Time advances from one timer   *)
(* deadline to the next, or by a shorter slip; calls, page changes and     *)
(* message deliveries happen at any of these instants.                     *)
(***************************************************************************)
EXTENDS Integers, Sequences, FiniteSets, TLC

(***************************************************************************)
(* Bounds of the model.                                                    *)
(***************************************************************************)
MaxCalls == 2
\* the calls where one operation cancels the commands of another
MaxCancelCalls == 3
\* the calls followed through a monitoring session
MaxStopCalls == 1
MaxInbox == 2
\* how often time may advance by SlipMs instead of to the next deadline
MaxSlips == 1
SlipMs == 100

\* the most automatic / manual applications awaiting their result at once
MaxPending == 1
\* the same, in the behaviours that start with room for MaxCancelCalls calls
MaxOverlap == 2
\* the step of time in the Recommendation Engine
EngineStepMs == 10000
MaxGames == 2
PlayStepMs == 60000
\* the step of time in the polled session
PollStepMs == 30000

\* the channel numbers the callers ask for
Channels == {7, 516}
\* Recommendation Engine, manual tap, diagnostic test
Callers == {"auto", "manual", "diag"}

(***************************************************************************)
(* Program constants (milliseconds, counts).                               *)
(***************************************************************************)
DigitDelayMs == 400
EnterDelayMs == 300
WatchdogSlackMs == 500
ReadinessTimeoutMs == 2000
NotReadyRetryMs == 1000
RetryIntervalMs == 500
maxRetries == 20
DeferredRetryMs == 500
CHANNEL_CHANGE_COOLDOWN_MS == 30 * 1000
CHANNEL_STABILITY_MS == 30 * 1000
COMMERCIAL_STUCK_TIME_MS == 60 * 1000
EXCITEMENT_TIEBREAKER_THRESHOLD == 30

VARIABLES
    \* ---- Session Orchestrator (RogersRemoteProvider) ----
    authenticated,          \* useState(false)
    webViewLoaded,          \* useState(false)
    ctxRef,                 \* the provider's webViewRef.current is non-null
    calls,                  \* the changeChannel calls made so far, by id
    \* ---- Automation Bridge (RogersRemoteWebView) ----
    webViewRef,             \* the bridge's own webViewRef.current is non-null
    changingChannelRef,     \* the in-flight flag
    readinessResolverRef,   \* the pending resolver: [call, left] or NoResolver
    inbox,                  \* messages posted by the surface, not yet handled
    \* ---- embedded surface (the remote-control page) ----
    page,                   \* "loading" | "signin" | "remote"
    surfaceTimers,          \* the live timers of window: set of [id, vcode, left]
    channelChangeTimeouts,  \* window._channelChangeTimeouts: sequence of timer ids
    surfaceClock,           \* ms since the script whose timers are live ran
    clickLog,               \* the clickButton invocations of that script
    \* ---- time ----
    slips,                  \* the slips taken so far
    \* ---- Recommendation Engine (HomeScreen) ----
    monitoring,             \* useState(false)
    computed,               \* calculateRecommendedChannel(status.games,
                            \* channelConfig) for the data last fetched;
                            \* 0: none, -1: no data yet
    currentChannel,         \* useState(null); 0: null
    lastChannelChangeTime,  \* ms since the time it holds; -1: null
    recommendedChannelRef,  \* 0: null
    recommendedChannelTimeRef,  \* ms since the time it holds; -1: null
    monitoringJustStartedRef,
    pending,                \* the changeChannel promises the screen awaits
    stableFor,              \* ms for which computed has had its value
    lastInvoke,             \* the last changeChannel call of the auto-change
                            \* effect: its path and what the effect saw
    status,                 \* useState(null): [loaded, games]
    channelConfig,          \* useState({channels: [], gameMappings: {}})
    previousGameState,      \* useRef({}): per event_id the down, distance and
                            \* play_sequence last fetched and the ms since
                            \* lastPlayUpdateTime
    lastApplied,            \* the last change that was applied: the ms since
                            \* it, whether it was applied by the stable path
                            \* less than 30 s after the one before, whether a
                            \* call of the effect has failed since, and
                            \* whether it was a manual one
    \* ---- Session Orchestrator: what it renders and stores ----
    showWebView,            \* useState(false)
    remoteProvider,         \* useState(REMOTE_PROVIDERS.ROGERS)
    storedProvider,         \* the AsyncStorage item '@remote_provider'
    loadingProvider,        \* loadProvider of the mount effect awaits getItem
    bridges,                \* the RogersRemoteWebView instance of the hidden
                            \* container and the one of the modal
    ctxBridge,              \* the instance whose handle the provider's
                            \* webViewRef.current is: "hidden", "modal", "none"
    reached                 \* what the last changeChannel of the provider came
                            \* to: "none" before the first call

providerVars == << authenticated, webViewLoaded >>
surfaceVars ==
    << surfaceTimers, channelChangeTimeouts, surfaceClock, clickLog >>
bridgeVars ==
    << providerVars, ctxRef, calls, webViewRef, changingChannelRef,
       readinessResolverRef, inbox, page, surfaceVars, slips, showWebView,
       remoteProvider, storedProvider, loadingProvider, bridges, ctxBridge,
       reached >>

\* what calculateRecommendedChannel reads
recommendVars == << status, channelConfig, previousGameState >>
\* what the auto-change effect reads and writes, computed apart
hysteresisVars ==
    << monitoring, currentChannel, lastChannelChangeTime,
       recommendedChannelRef, recommendedChannelTimeRef,
       monitoringJustStartedRef, pending, stableFor, lastInvoke,
       lastApplied >>
\* what the provider renders and stores
sessionVars ==
    << showWebView, remoteProvider, storedProvider, loadingProvider, bridges,
       ctxBridge, reached >>
\* what the bridge's handlers leave alone
engineVars == << hysteresisVars, computed, recommendVars, sessionVars >>
\* what the model of the auto-change effect leaves alone
bridgeOnlyVars ==
    << ctxRef, calls, webViewRef, changingChannelRef, readinessResolverRef,
       inbox, page, surfaceVars, slips, recommendVars, sessionVars >>

vars == << bridgeVars, engineVars >>

\* the ids of the changeChannel calls a behaviour can make
CallIds == DOMAIN calls
\* the changeChannel promises the screen can await at once
pendingCap == IF Len(calls) > MaxCalls THEN MaxOverlap ELSE MaxPending
Pages == {"loading", "signin", "remote"}
NoResolver == [call |-> 0, left |-> -1]

(***************************************************************************)
(* String(channelNumber).split("") : the decimal digits, most significant  *)
(* first.                                                                  *)
(***************************************************************************)
RECURSIVE digits(_)
digits(channelNumber) ==
    IF channelNumber < 10
    THEN << channelNumber >>
    ELSE Append(digits(channelNumber \div 10), channelNumber % 10)

\* "NUMBER_" + digit
NumberVcode(digit) ==
    << "NUMBER_0", "NUMBER_1", "NUMBER_2", "NUMBER_3", "NUMBER_4",
       "NUMBER_5", "NUMBER_6", "NUMBER_7", "NUMBER_8", "NUMBER_9" >>[digit + 1]

\* a variant that waits before the first digit too
digitDelayFromOne(index) == (index + 1) * DigitDelayMs

\* setTimeout(..., index * 400), index from 0
digitDelay(index) == index * DigitDelayMs

\* setTimeout(..., digits.length * 400 + 300)
enterDelay(k) == k * DigitDelayMs + EnterDelayMs

\* const totalTime = channelStr.length * 400 + 300 + 500
totalTime(k) == k * DigitDelayMs + EnterDelayMs + WatchdogSlackMs

(***************************************************************************)
(* Records.                                                                *)
(***************************************************************************)
\* One changeChannel call of the orchestrator and what became of it.
\*   pc       "new" | "interval" (orchestrator retry loop) | "deferred"
\*            (one deferred retry) | "probing" (awaiting readiness) |
\*            "notReadyWait" (bridge re-call pending) | "dispatched" | "done"
\*   interval, timer, watchdog   the countdowns of the retry interval, of the
\*            bridge's 1 s re-call and of the watchdog; -1 when not armed
\*   result   what the orchestrator returned / resolved: "none"|"true"|"false"
\*   outcome  how the call ended
NewCall ==
    [ channel |-> 0, pc |-> "new", retryCount |-> 0, interval |-> -1,
      timer |-> -1, watchdog |-> -1, result |-> "none", outcome |-> "none",
      bridgeCalls |-> 0, webViewLoaded |-> FALSE ]

Msg(type, op, ready, auth, vcode) ==
    [ type |-> type, op |-> op, ready |-> ready, authenticated |-> auth,
      vcode |-> vcode ]

\* window.ReactNativeWebView.postMessage: a message posted while MaxInbox
\* messages are still unhandled is lost.
Post(q, m) == IF Len(q) < MaxInbox THEN Append(q, m) ELSE q

Range(f) == { f[x] : x \in DOMAIN f }

\* The readiness script: document complete? digit-control marker present?
readyScript ==
    [ ready |-> page # "loading", authenticated |-> page = "remote" ]

(***************************************************************************)
(* Automation Bridge: changeChannel                                        *)
(***************************************************************************)
\* "Prevent multiple simultaneous channel changes"
inFlight == changingChannelRef

\* changeChannel(channelNumber) up to the readiness probe.  c is the call's
\* record as the caller leaves it.
changeChannel(i, c) ==
    /\ UNCHANGED << changingChannelRef, surfaceVars >>
    /\ IF ~webViewRef
       THEN /\ calls' = [calls EXCEPT ![i] =
                  [c EXCEPT !.pc = "done", !.outcome = "noWebView"]]
            /\ UNCHANGED << readinessResolverRef, inbox >>
       ELSE IF inFlight
       THEN /\ calls' = [calls EXCEPT ![i] =
                  [c EXCEPT !.pc = "done", !.outcome = "ignored"]]
            /\ UNCHANGED << readinessResolverRef, inbox >>
       ELSE \* checkWebViewReady: store the resolver, inject the probe,
            \* arm the 2 s fallback
            /\ readinessResolverRef' =
                  [call |-> i, left |-> ReadinessTimeoutMs]
            /\ inbox' = Post(inbox,
                  Msg("channelChangeReadiness", i, readyScript.ready,
                      readyScript.authenticated, ""))
            /\ calls' = [calls EXCEPT ![i] = [c EXCEPT !.pc = "probing"]]

\* The timers the injected script creates for the digits and for ENTER.
scriptTimers(i, channelNumber) ==
    LET ds == digits(channelNumber)
        k == Len(ds)
    IN  { [ id |-> << i, index >>, vcode |-> NumberVcode(ds[index + 1]),
            left |-> digitDelay(index) ] : index \in 0..(k - 1) }
        \cup { [ id |-> << i, k >>, vcode |-> "ENTER", left |-> enterDelay(k) ] }

scriptTimeoutIds(i, channelNumber) ==
    [ index \in 1..(Len(digits(channelNumber)) + 1) |-> << i, index - 1 >> ]

\* a variant that clears no timeout
clearedNone == {}

\* "Clear any existing timeouts": window._channelChangeTimeouts.forEach(clearTimeout)
clearedTimers == { t \in surfaceTimers : t.id \in Range(channelChangeTimeouts) }

\* if (!readiness.ready)
notReady(readiness) == ~readiness.ready

\* a variant that does not look at the probe's authenticated
notAuthenticatedUnchecked(readiness) == FALSE

\* if (!readiness.authenticated)
notAuthenticated(readiness) == ~readiness.authenticated

\* The continuation of checkWebViewReady().then(...) for call i.
afterReadiness(i, readiness, injectThrows) ==
    LET c == calls[i]
        k == Len(digits(c.channel))
    IN
    IF notReady(readiness)
    THEN \* setTimeout(() => changeChannel(channelNumber), 1000)
         /\ calls' = [calls EXCEPT ![i] =
               [c EXCEPT !.pc = "notReadyWait", !.timer = NotReadyRetryMs]]
         /\ UNCHANGED << changingChannelRef, surfaceVars >>
    ELSE IF notAuthenticated(readiness)
    THEN /\ changingChannelRef' = FALSE
         /\ calls' = [calls EXCEPT ![i] =
               [c EXCEPT !.pc = "done", !.outcome = "notAuthenticated"]]
         /\ UNCHANGED surfaceVars
    ELSE IF ~webViewRef \/ injectThrows
    THEN \* the flag is set and reset in the same turn
         /\ changingChannelRef' = FALSE
         /\ calls' = [calls EXCEPT ![i] =
               [c EXCEPT !.pc = "done", !.outcome = "injectFailed"]]
         /\ UNCHANGED surfaceVars
    ELSE \* the script runs in the surface; the watchdog is armed
         /\ changingChannelRef' = TRUE
         /\ surfaceTimers' =
               (surfaceTimers \ clearedTimers) \cup scriptTimers(i, c.channel)
         /\ channelChangeTimeouts' = scriptTimeoutIds(i, c.channel)
         /\ surfaceClock' = 0
         /\ clickLog' = << >>
         /\ calls' = [calls EXCEPT ![i] =
               [c EXCEPT !.pc = "dispatched", !.watchdog = totalTime(k)]]

(***************************************************************************)
(* Embedded surface: the timers of the injected script                     *)
(***************************************************************************)
\* clickButton(vcode): the control is found only on the remote-control page.
\* Its buttonClicked / buttonNotFound message is the click's log entry;
\* handleMessage only logs such a message.
buttonFound == page = "remote"

\* The terminal message of the ENTER callback: if (enterClicked) ... else ...
enterMsg(op, enterClicked) ==
    IF enterClicked
    THEN Msg("channelChanged", op, FALSE, FALSE, "")
    ELSE Msg("channelChangeError", op, FALSE, FALSE, "")

\* The log entry of the click of timer t.
click(t) == [ vcode |-> t.vcode, at |-> surfaceClock, found |-> buttonFound ]

\* A digit timer or the ENTER timer of the injected script fires.  The log
\* and the clock are those of the running script: they end with its last
\* timer.
SurfaceTimerFires(t) ==
    /\ t \in surfaceTimers
    /\ t.left = 0
    /\ surfaceTimers' = surfaceTimers \ {t}
    /\ IF t.vcode = "ENTER"
       THEN /\ inbox' = Post(inbox, enterMsg(t.id[1], buttonFound))
            /\ channelChangeTimeouts' = << >>
       ELSE /\ UNCHANGED << inbox, channelChangeTimeouts >>
    /\ IF surfaceTimers' = {}
       THEN clickLog' = << >> /\ surfaceClock' = 0
       ELSE /\ clickLog' = Append(clickLog, click(t))
            /\ UNCHANGED surfaceClock
    /\ UNCHANGED << providerVars, ctxRef, calls, webViewRef,
                    changingChannelRef, readinessResolverRef, page, slips >>
    /\ UNCHANGED engineVars

(***************************************************************************)
(* Automation Bridge: handleMessage, the readiness fallback, the watchdog  *)
(***************************************************************************)
\* handleAuthenticated(isAuth) of the provider, called through onAuthenticated
handleAuthenticated(isAuth) ==
    /\ authenticated' = isAuth
    /\ webViewLoaded' = (webViewLoaded \/ isAuth)

\* A terminal message, or its own watchdog, ends the operation (bookkeeping:
\* the handler itself looks at no operation).
terminated(cs, op, how) ==
    IF op \in CallIds /\ cs[op].pc = "dispatched"
    THEN [cs EXCEPT ![op].pc = "done", ![op].outcome = how]
    ELSE cs

\* else if (data.type === 'channelChanged') / 'channelChangeError'
clearsInFlight(type) == type \in {"channelChanged", "channelChangeError"}

\* a variant in which a readiness message that finds no resolver resets the
\* flag
handleMessageResets ==
    /\ inbox # << >>
    /\ webViewRef
    /\ LET data == Head(inbox) IN
       /\ inbox' = Tail(inbox)
       /\ IF clearsInFlight(data.type)
          THEN /\ changingChannelRef' = FALSE
               /\ calls' = terminated(calls, data.op, data.type)
               /\ UNCHANGED << readinessResolverRef, surfaceVars >>
          ELSE \* data.type = "channelChangeReadiness"
               IF readinessResolverRef.call # 0
               THEN /\ readinessResolverRef' = NoResolver
                    /\ \E injectThrows \in BOOLEAN :
                          afterReadiness(readinessResolverRef.call,
                              [ ready |-> data.ready,
                                authenticated |-> data.authenticated ],
                              injectThrows)
               ELSE /\ changingChannelRef' = FALSE
                    /\ UNCHANGED << calls, readinessResolverRef, surfaceVars >>
    /\ UNCHANGED << providerVars, ctxRef, webViewRef, page, slips >>
    /\ UNCHANGED engineVars

\* handleMessage(event) for the message at the head of the inbox.
handleMessage ==
    /\ inbox # << >>
    /\ webViewRef
    /\ LET data == Head(inbox) IN
       /\ inbox' = Tail(inbox)
       /\ IF clearsInFlight(data.type)
          THEN /\ changingChannelRef' = FALSE
               /\ calls' = terminated(calls, data.op, data.type)
               /\ UNCHANGED << readinessResolverRef, surfaceVars >>
          ELSE \* data.type = "channelChangeReadiness"
               IF readinessResolverRef.call # 0
               THEN /\ readinessResolverRef' = NoResolver
                    /\ \E injectThrows \in BOOLEAN :
                          afterReadiness(readinessResolverRef.call,
                              [ ready |-> data.ready,
                                authenticated |-> data.authenticated ],
                              injectThrows)
               ELSE UNCHANGED << calls, changingChannelRef,
                                 readinessResolverRef, surfaceVars >>
    /\ UNCHANGED << providerVars, ctxRef, webViewRef, page, slips >>
    /\ UNCHANGED engineVars

\* The authentication probe of handleLoadEnd / injectedJavaScript and the
\* handling of its message: 'authenticated', 'needsAuth', or 'authCheck'
\* (inconclusive, logged only).
AuthReport ==
    /\ webViewRef
    /\ IF page = "remote" THEN handleAuthenticated(TRUE)
       ELSE IF page = "signin" THEN handleAuthenticated(FALSE)
       ELSE UNCHANGED providerVars
    /\ providerVars' # providerVars
    /\ UNCHANGED << ctxRef, calls, webViewRef, changingChannelRef,
                    readinessResolverRef, inbox, page, surfaceVars, slips >>
    /\ UNCHANGED engineVars

\* resolve({ ready: true, authenticated: false })
timeoutReadiness == [ ready |-> TRUE, authenticated |-> FALSE ]

\* "Timeout fallback in case message never arrives": only the resolver that
\* is still the pending one is resolved, with ready and not authenticated.
ReadinessTimeout ==
    /\ readinessResolverRef.call # 0
    /\ readinessResolverRef.left = 0
    /\ readinessResolverRef' = NoResolver
    /\ \E injectThrows \in BOOLEAN :
          afterReadiness(readinessResolverRef.call, timeoutReadiness,
                         injectThrows)
    /\ UNCHANGED << providerVars, ctxRef, webViewRef, inbox, page, slips >>
    /\ UNCHANGED engineVars

\* The watchdog of call i: if (changingChannelRef.current) reset the flag.
Watchdog(i) ==
    /\ calls[i].watchdog = 0
    /\ changingChannelRef' = FALSE
    /\ calls' = [ terminated(calls, i, "timeout") EXCEPT ![i].watchdog = -1 ]
    /\ UNCHANGED << providerVars, ctxRef, webViewRef, readinessResolverRef,
                    inbox, page, surfaceVars, slips >>
    /\ UNCHANGED engineVars

\* The bridge calls itself again 1 s after a "not ready" result.
NotReadyRetry(i) ==
    /\ calls[i].pc = "notReadyWait"
    /\ calls[i].timer = 0
    /\ changeChannel(i, [calls[i] EXCEPT !.timer = -1])
    /\ UNCHANGED << providerVars, ctxRef, webViewRef, page, slips >>
    /\ UNCHANGED engineVars

(***************************************************************************)
(* Session Orchestrator: changeChannel with the retry loop                 *)
(***************************************************************************)
\* Promise.resolve(value) / resolve(value); the closure of the retry loop
\* is dropped with it.
resolve(c, value) == [ c EXCEPT !.result = value, !.retryCount = 0 ]

\* What a caller takes the returned value of call c for.  The Recommendation
\* Engine and the manual tap await the promise (const success = await ...,
\* .then((success) => ...)); the diagnostic test uses the returned promise
\* itself as the condition (const success = changeChannel(channelNum);
\* if (success) ...), and an object is truthy; its button is disabled while
\* not authenticated.
seen(c, caller) ==
    IF c.pc = "new" THEN "none"
    ELSE IF caller = "diag"
    THEN (IF c.outcome = "unauthenticated" THEN "none" ELSE "success")
    ELSE IF c.result = "true" THEN "success"
    ELSE IF c.result = "false" THEN "failure"
    ELSE "none"

\* isRemoteReady(): the bridge reference, its isReady(), and webViewLoaded as
\* the call's closure holds it
isRemoteReady(c) == ctxRef /\ webViewRef /\ c.webViewLoaded

\* the next call id not yet used
IsNext(i) == i = Cardinality({ j \in CallIds : calls[j].pc # "new" }) + 1

\* a variant that allows one retry more
retriesExhaustedLate(retryCount) == retryCount > maxRetries

\* if (retryCount >= maxRetries)
retriesExhausted(retryCount) == retryCount >= maxRetries

\* after a successful attempt in the interval: clearInterval(retryInterval)
intervalAfterSuccess == -1

\* changeChannel(channelNumber) of the provider: the authentication check and
\* the immediate attempt.
providerCall(i, channelNumber) ==
    /\ IsNext(i)
    /\ LET c == [ NewCall EXCEPT !.channel = channelNumber,
                                 !.webViewLoaded = webViewLoaded ]
       IN
       IF ~authenticated
       THEN /\ calls' = [calls EXCEPT ![i] =
                  [ resolve(c, "false") EXCEPT !.pc = "done",
                                               !.outcome = "unauthenticated" ]]
            /\ UNCHANGED << changingChannelRef, readinessResolverRef, inbox,
                            surfaceVars >>
       ELSE IF isRemoteReady(c)
       THEN \* attemptChannelChange() returned true
            changeChannel(i, resolve([c EXCEPT !.bridgeCalls = 1], "true"))
       ELSE \* setInterval(..., 500)
            /\ calls' = [calls EXCEPT ![i] =
                  [c EXCEPT !.pc = "interval", !.interval = RetryIntervalMs]]
            /\ UNCHANGED << changingChannelRef, readinessResolverRef, inbox,
                            surfaceVars >>
    /\ UNCHANGED << providerVars, ctxRef, webViewRef, page, slips >>

\* changeChannel(channelNumber) of the provider, called by a caller whose
\* state is not followed
providerChangeChannel(i, channelNumber) ==
    /\ providerCall(i, channelNumber)
    /\ UNCHANGED engineVars

\* One turn of the retry interval of call i.
retryInterval(i) ==
    /\ calls[i].interval = 0
    /\ LET c == [calls[i] EXCEPT !.retryCount = @ + 1] IN
       IF isRemoteReady(c)
       THEN \* clearInterval, resolve(true)
            changeChannel(i, resolve([c EXCEPT !.interval = intervalAfterSuccess,
                                               !.bridgeCalls = @ + 1], "true"))
       ELSE /\ UNCHANGED << changingChannelRef, readinessResolverRef, inbox,
                            surfaceVars >>
            /\ IF retriesExhausted(c.retryCount)
               THEN \* clearInterval, Alert 'Remote Not Ready', resolve(false)
                    calls' = [calls EXCEPT ![i] =
                       [ resolve(c, "false") EXCEPT !.pc = "done",
                            !.interval = -1, !.outcome = "remoteNotReady" ]]
               ELSE calls' = [calls EXCEPT ![i] =
                       [c EXCEPT !.interval = RetryIntervalMs]]
    /\ UNCHANGED << providerVars, ctxRef, webViewRef, page, slips >>
    /\ UNCHANGED engineVars

(***************************************************************************)
(* Session Orchestrator, boolean version: changeChannel with one deferred  *)
(* retry                                                                   *)
(***************************************************************************)
\* a variant that never finds the reference
refNeverAvailable == FALSE

\* webViewRef.current of the provider is non-null
refAvailable == ctxRef

\* changeChannel(channelNumber): false when not authenticated; with no
\* bridge reference one retry is deferred by 500 ms and false is returned;
\* else the bridge is called and true is returned.
legacyChangeChannel(i, channelNumber) ==
    /\ IsNext(i)
    /\ LET c == [ NewCall EXCEPT !.channel = channelNumber ] IN
       IF ~authenticated
       THEN /\ calls' = [calls EXCEPT ![i] =
                  [ resolve(c, "false") EXCEPT !.pc = "done",
                                               !.outcome = "unauthenticated" ]]
            /\ UNCHANGED << changingChannelRef, readinessResolverRef, inbox,
                            surfaceVars >>
       ELSE IF ~refAvailable
       THEN \* setTimeout(..., 500); return false
            /\ calls' = [calls EXCEPT ![i] =
                  [ resolve(c, "false") EXCEPT !.pc = "deferred",
                                               !.timer = DeferredRetryMs ]]
            /\ UNCHANGED << changingChannelRef, readinessResolverRef, inbox,
                            surfaceVars >>
       ELSE changeChannel(i, resolve([c EXCEPT !.bridgeCalls = 1], "true"))
    /\ UNCHANGED << providerVars, ctxRef, webViewRef, page, slips >>
    /\ UNCHANGED engineVars

\* The deferred retry of call i: the bridge is called if its reference is
\* there now, else the 'Remote Not Ready' prompt is shown.
DeferredRetry(i) ==
    /\ calls[i].pc = "deferred"
    /\ calls[i].timer = 0
    /\ LET c == [calls[i] EXCEPT !.timer = -1] IN
       IF refAvailable
       THEN changeChannel(i, [c EXCEPT !.bridgeCalls = @ + 1])
       ELSE /\ calls' = [calls EXCEPT ![i] =
                  [c EXCEPT !.pc = "done", !.outcome = "remoteNotReady"]]
            /\ UNCHANGED << changingChannelRef, readinessResolverRef, inbox,
                            surfaceVars >>
    /\ UNCHANGED << providerVars, ctxRef, webViewRef, page, slips >>
    /\ UNCHANGED engineVars

(***************************************************************************)
(* Recommendation Engine: the auto-change effect of the HomeScreen         *)
(***************************************************************************)
\* a time reference that holds nothing
Null == -1

\* the promise of changeChannel resolves within the retry loop's 20 x 500 ms
MaxResolveMs == maxRetries * RetryIntervalMs

\* ages are compared with the 30 s thresholds only
AgeCap == CHANNEL_STABILITY_MS

older(age, d) ==
    IF age = Null THEN Null
    ELSE IF age + d > AgeCap THEN AgeCap ELSE age + d

\* const attemptChange = async () => { const success = await changeChannel(..
\* the awaited call, with the "now" its continuation closes over
attemptChange(channel, path) ==
    [ channel |-> channel, path |-> path, now |-> 0 ]

\* status is null until the first fetch succeeds
NoData == -1

\* What a run of the auto-change effect sees: the rendered state and the
\* references.
rendered ==
    [ monitoring |-> monitoring, authenticated |-> authenticated,
      rec |-> computed, stableFor |-> stableFor,
      justStarted |-> monitoringJustStartedRef,
      currentChannel |-> currentChannel,
      lastChannelChangeTime |-> lastChannelChangeTime,
      ref |-> recommendedChannelRef, refTime |-> recommendedChannelTimeRef,
      pending |-> pending ]

\* now - recommendedChannelTimeRef.current < CHANNEL_STABILITY_MS
notYetStable(v) == v.refTime < CHANNEL_STABILITY_MS

\* lastChannelChangeTime.current &&
\*   (now - lastChannelChangeTime.current) < CHANNEL_CHANGE_COOLDOWN_MS
cooldownActive(v) ==
    v.lastChannelChangeTime # Null
        /\ v.lastChannelChangeTime < CHANNEL_CHANGE_COOLDOWN_MS

\* the call the effect makes on path, and what the effect saw
invoked(path, v) ==
    [ path |-> path, stableFor |-> v.stableFor,
      tuned |-> (v.rec = v.currentChannel) ]

\* no call yet
NoInvoke ==
    [ path |-> "none", stableFor |-> 0, tuned |-> FALSE ]

\* The auto-change effect, run on v: what it leaves in the references and
\* the changeChannel call it makes.
autoChangeEffect(v) ==
    IF ~v.monitoring \/ ~v.authenticated \/ v.rec = NoData
    THEN /\ monitoringJustStartedRef' =
               (IF ~v.monitoring THEN FALSE ELSE v.justStarted)
         /\ recommendedChannelRef' = v.ref
         /\ recommendedChannelTimeRef' = v.refTime
         /\ pending' = v.pending
         /\ UNCHANGED lastInvoke
    ELSE IF v.rec = 0
    THEN \* no recommended channel: clear the stability tracking
         /\ recommendedChannelRef' = 0
         /\ recommendedChannelTimeRef' = Null
         /\ monitoringJustStartedRef' = FALSE
         /\ pending' = v.pending
         /\ UNCHANGED lastInvoke
    ELSE IF v.justStarted
    THEN \* monitoring just started: switch at once
         /\ Len(v.pending) < pendingCap
         /\ monitoringJustStartedRef' = FALSE
         /\ pending' = Append(v.pending, attemptChange(v.rec, "bypass"))
         /\ lastInvoke' = invoked("bypass", v)
         /\ recommendedChannelRef' = v.ref
         /\ recommendedChannelTimeRef' = v.refTime
    ELSE IF v.rec # v.ref
    THEN \* a different channel is recommended: reset the stability timer
         /\ recommendedChannelRef' = v.rec
         /\ recommendedChannelTimeRef' = 0
         /\ monitoringJustStartedRef' = v.justStarted
         /\ pending' = v.pending
         /\ UNCHANGED lastInvoke
    ELSE IF ~notYetStable(v) /\ v.rec # v.currentChannel /\ ~cooldownActive(v)
    THEN \* stable, another channel than the current one, cooldown over
         /\ Len(v.pending) < pendingCap
         /\ pending' = Append(v.pending, attemptChange(v.rec, "stable"))
         /\ lastInvoke' = invoked("stable", v)
         /\ recommendedChannelRef' = v.ref
         /\ recommendedChannelTimeRef' = v.refTime
         /\ monitoringJustStartedRef' = v.justStarted
    ELSE /\ recommendedChannelRef' = v.ref
         /\ recommendedChannelTimeRef' = v.refTime
         /\ monitoringJustStartedRef' = v.justStarted
         /\ pending' = v.pending
         /\ UNCHANGED lastInvoke

\* fetchStatus: new data arrive (the 2 s poll while monitoring, a refresh,
\* the mount), the recommendation for them is rec, and the effect runs on
\* the changed status.games.
fetchStatus(rec) ==
    /\ computed' = rec
    /\ stableFor' = IF rec = computed THEN stableFor ELSE 0
    /\ autoChangeEffect([rendered EXCEPT !.rec = rec, !.stableFor = stableFor'])
    /\ UNCHANGED lastApplied
    /\ UNCHANGED << monitoring, currentChannel, lastChannelChangeTime >>
    /\ UNCHANGED << providerVars, bridgeOnlyVars >>

\* The effect runs again on the data it has: the provider rendered again and
\* its changeChannel is a new function.
autoChange ==
    /\ autoChangeEffect(rendered)
    /\ UNCHANGED lastApplied
    /\ UNCHANGED << monitoring, computed, stableFor, currentChannel,
                    lastChannelChangeTime >>
    /\ UNCHANGED << providerVars, bridgeOnlyVars >>

\* a variant that does not mark the start
handleStartUnmarked ==
    /\ ~monitoring
    /\ authenticated
    /\ computed # NoData
    /\ monitoring' = TRUE
    /\ autoChangeEffect([rendered EXCEPT !.monitoring = TRUE])
    /\ UNCHANGED lastApplied
    /\ UNCHANGED << computed, stableFor, currentChannel,
                    lastChannelChangeTime >>
    /\ UNCHANGED << providerVars, bridgeOnlyVars >>

\* handleStart (the button is there once status is, and is disabled while
\* not authenticated), and the effect on the changed monitoring
handleStart ==
    /\ ~monitoring
    /\ authenticated
    /\ computed # NoData
    /\ monitoring' = TRUE
    /\ autoChangeEffect([rendered EXCEPT !.monitoring = TRUE,
                                         !.justStarted = TRUE])
    /\ UNCHANGED lastApplied
    /\ UNCHANGED << computed, stableFor, currentChannel,
                    lastChannelChangeTime >>
    /\ UNCHANGED << providerVars, bridgeOnlyVars >>

\* handleStop, and the effect on the changed monitoring
handleStop ==
    /\ monitoring
    /\ monitoring' = FALSE
    /\ autoChangeEffect([rendered EXCEPT !.monitoring = FALSE])
    /\ UNCHANGED lastApplied
    /\ UNCHANGED << computed, stableFor, currentChannel,
                    lastChannelChangeTime >>
    /\ UNCHANGED << providerVars, bridgeOnlyVars >>

\* The tap on a game's channel button (there once status is, disabled while
\* not authenticated).
manualChange(channel) ==
    /\ authenticated
    /\ computed # NoData
    /\ Len(pending) < pendingCap
    /\ pending' = Append(pending, attemptChange(channel, "manual"))
    /\ UNCHANGED << monitoring, computed, currentChannel,
                    lastChannelChangeTime, recommendedChannelRef,
                    recommendedChannelTimeRef, monitoringJustStartedRef,
                    stableFor, lastInvoke, lastApplied >>
    /\ UNCHANGED << providerVars, bridgeOnlyVars >>

\* a variant that clears the recommended channel and keeps its time
continuationKeepsTime(a, success, v) ==
    IF ~success THEN v
    ELSE IF a.path = "bypass"
    THEN [v EXCEPT !.currentChannel = a.channel,
                   !.lastChannelChangeTime = a.now,
                   !.ref = a.channel, !.refTime = a.now]
    ELSE IF a.path = "stable"
    THEN [v EXCEPT !.currentChannel = a.channel,
                   !.lastChannelChangeTime = a.now,
                   !.ref = 0]
    ELSE [v EXCEPT !.currentChannel = a.channel,
                   !.lastChannelChangeTime = a.now]

\* a variant that stamps the time of the change on failure too
continuationStamps(a, success, v) ==
    IF ~success THEN [v EXCEPT !.lastChannelChangeTime = a.now]
    ELSE IF a.path = "bypass"
    THEN [v EXCEPT !.currentChannel = a.channel,
                   !.lastChannelChangeTime = a.now,
                   !.ref = a.channel, !.refTime = a.now]
    ELSE IF a.path = "stable"
    THEN [v EXCEPT !.currentChannel = a.channel,
                   !.lastChannelChangeTime = a.now,
                   !.ref = 0, !.refTime = Null]
    ELSE [v EXCEPT !.currentChannel = a.channel,
                   !.lastChannelChangeTime = a.now]

\* The continuation of the awaited call a: what it leaves for the effect.
continuation(a, success, v) ==
    IF ~success THEN v
    ELSE IF a.path = "bypass"
    THEN [v EXCEPT !.currentChannel = a.channel,
                   !.lastChannelChangeTime = a.now,
                   !.ref = a.channel, !.refTime = a.now]
    ELSE IF a.path = "stable"
    THEN [v EXCEPT !.currentChannel = a.channel,
                   !.lastChannelChangeTime = a.now,
                   !.ref = 0, !.refTime = Null]
    ELSE [v EXCEPT !.currentChannel = a.channel,
                   !.lastChannelChangeTime = a.now]

\* no change applied yet
NoApplied ==
    [ age |-> Null, early |-> FALSE, failed |-> FALSE, manual |-> FALSE ]

\* without the k-th element
without(q, k) == SubSeq(q, 1, k - 1) \o SubSeq(q, k + 1, Len(q))

\* The k-th awaited changeChannel resolves and its continuation runs; the
\* effect runs if the current channel has changed.
applied(k, success) ==
    /\ k \in 1..Len(pending)
    /\ LET v == continuation(pending[k], success,
                             [rendered EXCEPT !.pending = without(pending, k)])
       IN  /\ currentChannel' = v.currentChannel
           /\ lastChannelChangeTime' = v.lastChannelChangeTime
           /\ IF v.currentChannel # currentChannel
              THEN autoChangeEffect(v)
              ELSE /\ recommendedChannelRef' = v.ref
                   /\ recommendedChannelTimeRef' = v.refTime
                   /\ pending' = v.pending
                   /\ UNCHANGED << monitoringJustStartedRef, lastInvoke >>
    /\ lastApplied' =
          IF success
          THEN [ age |-> 0,
                 early |-> pending[k].path = "stable"
                               /\ lastApplied.age # Null
                               /\ lastApplied.age < CHANNEL_CHANGE_COOLDOWN_MS,
                 failed |-> FALSE,
                 manual |-> pending[k].path = "manual" ]
          ELSE [lastApplied EXCEPT !.failed = pending[k].path # "manual"]
    /\ UNCHANGED << monitoring, computed, stableFor >>
    /\ UNCHANGED << providerVars, bridgeOnlyVars >>

\* onAuthenticated of the bridge reaches the provider, and the effect runs on
\* the changed authenticated / changeChannel.
onAuthenticated(isAuth) ==
    /\ handleAuthenticated(isAuth)
    /\ providerVars' # providerVars
    /\ autoChangeEffect([rendered EXCEPT !.authenticated = isAuth])
    /\ UNCHANGED lastApplied
    /\ UNCHANGED << monitoring, computed, stableFor, currentChannel,
                    lastChannelChangeTime >>
    /\ UNCHANGED bridgeOnlyVars

\* EngineStepMs pass; an awaited changeChannel has resolved by MaxResolveMs.
EngineAdvance ==
    /\ \A k \in 1..Len(pending) : pending[k].now + EngineStepMs <= MaxResolveMs
    /\ pending' = [ k \in 1..Len(pending) |->
                      [pending[k] EXCEPT !.now = @ + EngineStepMs] ]
    /\ lastChannelChangeTime' = older(lastChannelChangeTime, EngineStepMs)
    /\ recommendedChannelTimeRef' =
          older(recommendedChannelTimeRef, EngineStepMs)
    /\ stableFor' = older(stableFor, EngineStepMs)
    /\ lastApplied' = [lastApplied EXCEPT !.age = older(@, EngineStepMs)]
    /\ UNCHANGED << monitoring, computed, currentChannel,
                    recommendedChannelRef, monitoringJustStartedRef,
                    lastInvoke >>
    /\ UNCHANGED << providerVars, bridgeOnlyVars >>

(***************************************************************************)
(* Recommendation Engine: calculateRecommendedChannel and the per-game     *)
(* state fetchStatus keeps for it                                          *)
(***************************************************************************)
EventIds == 1..MaxGames

\* game.down === null, and a null distance with it
NoDown == 0
\* no play_sequence and no play_id
NoPlay == 0

\* a game of status.games; distance is 10 on 1st down, 1 on 4th
Game(id, live, quarter, down, score, play, timeout, scoreChanged, excitement) ==
    [ event_id |-> id, is_live |-> live, quarter |-> quarter, down |-> down,
      distance |-> (IF down = 1 THEN 10 ELSE IF down = 4 THEN 1 ELSE NoDown),
      home_score |-> score, away_score |-> 0, play_sequence |-> play,
      is_timeout |-> timeout, score_just_changed |-> scoreChanged,
      game_excitement_score |-> excitement ]

\* The games the server reports for event 1: quarter and score vary where
\* there is neither a down nor a play marker; the game that is not live is
\* one that has started.
Snapshots1 ==
    { Game(1, TRUE, q, NoDown, sc, NoPlay, t, FALSE, 50) :
          q \in {0, 1}, sc \in {0, 7}, t \in BOOLEAN }
    \cup { Game(1, TRUE, 1, d, 0, p, f[1], f[2], 50) :
          d \in {NoDown, 1, 4}, p \in {NoPlay, 1, 2},
          f \in { << FALSE, FALSE >>, << TRUE, FALSE >>, << FALSE, TRUE >> } }
    \cup { Game(1, FALSE, 1, 1, 0, 1, FALSE, FALSE, 50) }

\* The games the server reports for event 2: in play on 1st down.
Snapshots2 ==
    { Game(2, TRUE, 1, 1, 0, 1, t, FALSE, e) :
          t \in BOOLEAN, e \in {55, 60, 80} }

\* no game of that event in the list
Absent == [ event_id |-> 0 ]

\* the game of event id in games
gameOf(games, id) ==
    IF \E k \in 1..Len(games) : games[k].event_id = id
    THEN games[CHOOSE k \in 1..Len(games) : games[k].event_id = id]
    ELSE Absent

\* data.games with these two games, those that are there
listOf(a, b) ==
    (IF a = Absent THEN << >> ELSE << a >>)
        \o (IF b = Absent THEN << >> ELSE << b >>)

\* config.gameMappings[game.event_id] is undefined
NoMapping == [ mapped |-> FALSE, channel |-> 0, priority |-> 0 ]

mapping(channel, priority) ==
    [ mapped |-> TRUE, channel |-> channel, priority |-> priority ]

\* The channel configurations: event 1 on channel 10, event 2 on channel 20.
Configs ==
    { [ gameMappings |->
          [ id \in EventIds |->
              IF id = 1 THEN m1 ELSE IF id = 2 THEN m2 ELSE NoMapping ] ] :
          m1 \in { NoMapping, mapping(10, 1), mapping(10, 5) },
          m2 \in { NoMapping, mapping(20, 2), mapping(20, 9) } }

\* previousGameState.current[game.event_id] is undefined
NeverSeen ==
    [ seen |-> FALSE, down |-> NoDown, distance |-> NoDown,
      play_sequence |-> NoPlay, lastPlayUpdateTime |-> Null ]

\* ages of lastPlayUpdateTime are compared with the 60 s threshold only
PlayAgeCap == 2 * COMMERCIAL_STUCK_TIME_MS

\* playSequence && previousState.play_sequence &&
\*   playSequence !== previousState.play_sequence
playSequenceChanged(game, previousState) ==
    /\ game.play_sequence # NoPlay
    /\ previousState.play_sequence # NoPlay
    /\ game.play_sequence # previousState.play_sequence

\* previousState.down !== undefined && (previousState.down !== game.down ||
\*   previousState.distance !== game.distance)
downChanged(game, previousState) ==
    /\ previousState.seen
    /\ \/ previousState.down # game.down
       \/ previousState.distance # game.distance

\* downChanged && game.down !== null && game.distance !== null
downChangedValid(game, previousState) ==
    /\ downChanged(game, previousState)
    /\ game.down # NoDown
    /\ game.distance # NoDown

hasNewPlay(game, previousState) ==
    playSequenceChanged(game, previousState)
        \/ downChangedValid(game, previousState)

\* a variant that takes a play for stuck from the threshold on
isPlayStuckFrom(previousState, elapsed) ==
    /\ previousState.lastPlayUpdateTime # Null
    /\ previousState.lastPlayUpdateTime + elapsed >= COMMERCIAL_STUCK_TIME_MS

\* timeSinceLastPlay > COMMERCIAL_STUCK_TIME_MS, elapsed ms after the state
isPlayStuck(previousState, elapsed) ==
    /\ previousState.lastPlayUpdateTime # Null
    /\ previousState.lastPlayUpdateTime + elapsed > COMMERCIAL_STUCK_TIME_MS

\* a variant that drops the games stuck on 4th down only
isCommercialStuckOnly(game, previousState, elapsed) ==
    /\ game.down = 4
    /\ isPlayStuck(previousState, elapsed)
    /\ ~hasNewPlay(game, previousState)

\* the game is skipped as being in a commercial or timeout break
isCommercial(game, previousState, elapsed) ==
    \/ /\ ~hasNewPlay(game, previousState)
       /\ game.is_timeout \/ game.score_just_changed
    \/ /\ game.down = 4
       /\ isPlayStuck(previousState, elapsed)
       /\ ~hasNewPlay(game, previousState)

gameHasStarted(game) ==
    \/ game.quarter > 0
    \/ game.down # NoDown
    \/ game.home_score > 0 \/ game.away_score > 0
    \/ game.play_sequence # NoPlay

\* a variant that takes the games that are not live too
eligibleNotLive(game, config) ==
    /\ config.gameMappings[game.event_id].mapped
    /\ gameHasStarted(game)

\* the games that pass the mapping, live and started tests
eligible(game, config) ==
    /\ config.gameMappings[game.event_id].mapped
    /\ game.is_live
    /\ gameHasStarted(game)

\* candidates: the games pushed at 941-947, in the order of the games
candidates(games, config, previous, elapsed) ==
    LET keep(game) ==
            /\ eligible(game, config)
            /\ ~isCommercial(game, previous[game.event_id], elapsed)
    IN  SelectSeq(games, keep)

\* a variant that gives no priority bonus
priorityBonusNever(usePriorityTiebreaker, priority) == 0

\* a variant that gives the priority bonus whatever the excitement range
priorityBonusAlways(usePriorityTiebreaker, priority) == (10 - priority) * 10

\* usePriorityTiebreaker ? (10 - candidate.priority) * 10 : 0
priorityBonus(usePriorityTiebreaker, priority) ==
    IF usePriorityTiebreaker THEN (10 - priority) * 10 ELSE 0

\* the index of the first of the highest keys
firstBest(keys) ==
    CHOOSE k \in 1..Len(keys) :
        /\ \A j \in 1..Len(keys) : keys[j] <= keys[k]
        /\ \A j \in 1..(k - 1) : keys[j] < keys[k]

\* a variant that falls back to the first eligible game of the list
fallbackGameFirst(games, config) ==
    LET keep(game) == eligible(game, config)
        live == SelectSeq(games, keep)
    IN  IF live = << >> THEN 0
        ELSE config.gameMappings[live[1].event_id].channel

\* the fallback: the eligible game with the lowest priority number, the
\* first of them
fallbackGame(games, config) ==
    LET keep(game) == eligible(game, config)
        live == SelectSeq(games, keep)
        \* mapping.priority < lowestPriority: the lowest number is the best
        keys == [ k \in 1..Len(live) |->
                    0 - config.gameMappings[live[k].event_id].priority ]
    IN  IF live = << >> THEN 0
        ELSE config.gameMappings[live[firstBest(keys)].event_id].channel

\* the candidate that is first after the sort by combined_score
topCandidate(cands, config) ==
    LET scores == { cands[k].game_excitement_score : k \in 1..Len(cands) }
        maxExcitement == CHOOSE x \in scores : \A y \in scores : y <= x
        minExcitement == CHOOSE x \in scores : \A y \in scores : x <= y
        usePriorityTiebreaker ==
            maxExcitement - minExcitement < EXCITEMENT_TIEBREAKER_THRESHOLD
        combined_score(c) ==
            c.game_excitement_score
                + priorityBonus(usePriorityTiebreaker,
                                config.gameMappings[c.event_id].priority)
        keys == [ k \in 1..Len(cands) |-> combined_score(cands[k]) ]
    IN  cands[firstBest(keys)]

\* calculateRecommendedChannel(games, config), with previousGameState.current
\* = previous and Date.now() elapsed ms after the state; 0: null
calculateRecommendedChannel(games, config, previous, elapsed) ==
    IF \A id \in EventIds : ~config.gameMappings[id].mapped
    THEN 0
    ELSE LET cands == candidates(games, config, previous, elapsed) IN
         IF cands = << >>
         THEN fallbackGame(games, config)
         ELSE config.gameMappings[topCandidate(cands, config).event_id].channel

\* previousGameState.current[game.event_id] = {...} of fetchStatus
recorded(game, prevState) ==
    LET lastPlayUpdateTime ==
            IF downChangedValid(game, prevState)
                   \/ playSequenceChanged(game, prevState)
            THEN 0 ELSE prevState.lastPlayUpdateTime
    IN  [ seen |-> TRUE, down |-> game.down, distance |-> game.distance,
          play_sequence |-> game.play_sequence,
          lastPlayUpdateTime |->
              (IF lastPlayUpdateTime = Null THEN 0 ELSE lastPlayUpdateTime) ]

\* `${g.event_id}-${g.game_excitement_score}` joined
gamesStr(games) ==
    [ k \in 1..Len(games) |->
          << games[k].event_id, games[k].game_excitement_score >> ]

\* what the updater of setStatus returns for prevStatus and games
nextStatus(prevStatus, games) ==
    IF ~prevStatus.loaded THEN [ loaded |-> TRUE, games |-> games ]
    ELSE IF Len(prevStatus.games) # Len(games)
    THEN [ loaded |-> TRUE, games |-> games ]
    ELSE IF Len(games) > 0 /\ gamesStr(prevStatus.games) # gamesStr(games)
    THEN [ loaded |-> TRUE, games |-> games ]
    ELSE prevStatus

\* fetchStatus with data.games = games: the per-game state is recorded, the
\* status is replaced if the games or their excitement have changed, and the
\* effect calculates on the new status.games.
setStatus(games) ==
    /\ previousGameState' =
          [ id \in EventIds |->
              IF gameOf(games, id) = Absent THEN previousGameState[id]
              ELSE recorded(gameOf(games, id), previousGameState[id]) ]
    /\ status' = nextStatus(status, games)
    /\ computed' =
          IF status' # status
          THEN calculateRecommendedChannel(status'.games, channelConfig,
                                           previousGameState', 0)
          ELSE computed
    /\ UNCHANGED channelConfig
    /\ UNCHANGED << hysteresisVars, bridgeVars >>

\* The server reports another game of event 1, or of event 2, or none.
fetchGames ==
    \/ \E a \in Snapshots1 \cup {Absent} :
          setStatus(listOf(a, gameOf(status.games, 2)))
    \/ \E b \in Snapshots2 \cup {Absent} :
          setStatus(listOf(gameOf(status.games, 1), b))

\* loadChannelConfig, and the effect on the changed channelConfig
loadChannelConfig(config) ==
    /\ config # channelConfig
    /\ channelConfig' = config
    /\ computed' =
          IF status.loaded
          THEN calculateRecommendedChannel(status.games, config,
                                           previousGameState, 0)
          ELSE computed
    /\ UNCHANGED << status, previousGameState >>
    /\ UNCHANGED << hysteresisVars, bridgeVars >>

\* The effect runs again on the status it has (another of its dependencies
\* has changed).
calculate ==
    /\ status.loaded
    /\ computed' = calculateRecommendedChannel(status.games, channelConfig,
                                                previousGameState, 0)
    /\ computed' # computed
    /\ UNCHANGED recommendVars
    /\ UNCHANGED << hysteresisVars, bridgeVars >>

\* PlayStepMs pass.
timePasses ==
    /\ previousGameState' =
          [ id \in EventIds |->
              [previousGameState[id] EXCEPT !.lastPlayUpdateTime =
                  IF @ = Null THEN Null
                  ELSE IF @ + PlayStepMs > PlayAgeCap THEN PlayAgeCap
                  ELSE @ + PlayStepMs] ]
    /\ previousGameState' # previousGameState
    /\ UNCHANGED << status, channelConfig, computed >>
    /\ UNCHANGED << hysteresisVars, bridgeVars >>

(***************************************************************************)
(* Session Orchestrator: the provider selected and stored, and the bridge  *)
(* instances the provider renders                                          *)
(***************************************************************************)
REMOTE_PROVIDERS ==
    [ ROGERS |-> [ name |-> "Rogers",
                   url |-> "https://rogers.webremote.com/remote" ],
      XFINITY |-> [ name |-> "Xfinity",
                    url |-> "https://remote.xfinity.com/remote" ],
      SHAW |-> [ name |-> "Shaw",
                 url |-> "https://webremote.shaw.ca/remote" ] ]

\* Object.keys(REMOTE_PROVIDERS), in their order
ProviderKeys == << "ROGERS", "XFINITY", "SHAW" >>

\* getItem returns null; find and REMOTE_PROVIDERS[...] return undefined
NoItem == ""
NoProvider == [ name |-> "", url |-> "" ]

\* String.prototype.toUpperCase on the strings that can be stored
toUpperCase(str) ==
    CASE str = "Rogers" -> "ROGERS"
      [] str = "Xfinity" -> "XFINITY"
      [] str = "Shaw" -> "SHAW"
      [] str = "https://rogers.webremote.com/remote"
            -> "HTTPS://ROGERS.WEBREMOTE.COM/REMOTE"
      [] str = "https://remote.xfinity.com/remote"
            -> "HTTPS://REMOTE.XFINITY.COM/REMOTE"
      [] str = "https://webremote.shaw.ca/remote"
            -> "HTTPS://WEBREMOTE.SHAW.CA/REMOTE"
      [] OTHER -> str

\* a variant that stores the provider's url
providerKeyUrl(provider) == provider.url

\* Object.keys(REMOTE_PROVIDERS).find(key =>
\*   REMOTE_PROVIDERS[key].url === provider.url)
providerKey(provider) ==
    LET found == { k \in 1..Len(ProviderKeys) :
                     REMOTE_PROVIDERS[ProviderKeys[k]].url = provider.url }
    IN  IF found = {} THEN NoItem
        ELSE ProviderKeys[CHOOSE k \in found : \A j \in found : k <= j]

\* REMOTE_PROVIDERS[savedProvider.toUpperCase()] of loadProvider
savedProviderOf(savedProvider) ==
    IF savedProvider = NoItem THEN NoProvider
    ELSE IF toUpperCase(savedProvider) \in DOMAIN REMOTE_PROVIDERS
    THEN REMOTE_PROVIDERS[toUpperCase(savedProvider)]
    ELSE NoProvider

\* the places of the render in which a RogersRemoteWebView stands
Slots == {"hidden", "modal"}

\* the surface of an instance: the pages of the remote site, or "gone" once
\* the platform has destroyed it
SurfacePages == Pages \cup {"gone"}

Unmounted == [ alive |-> FALSE, url |-> "", page |-> "loading" ]

\* a new instance: its WebView starts to load remoteUrl
mounted(remoteUrl) == [ alive |-> TRUE, url |-> remoteUrl, page |-> "loading" ]

\* {authenticated && (<View style={styles.webViewHidden}> ...
hiddenMounted(auth) == auth

\* the modal of the promise-returning version: <RogersRemoteWebView .../>
\* whatever authenticated is, in a Modal that is visible
modalMounted(auth, show) == show

\* the modal of the boolean version: {authenticated ? <placeholder> :
\* <RogersRemoteWebView .../>}, in a Modal that is visible
modalMountedLegacy(auth, show) == show /\ ~auth

\* an instance over a render: unmounted, mounted, or kept, with its source
\* changed to remoteUrl
rendered1(b, isMounted, remoteUrl) ==
    IF ~isMounted THEN Unmounted
    ELSE IF ~b.alive THEN mounted(remoteUrl)
    ELSE IF b.url # remoteUrl THEN [b EXCEPT !.url = remoteUrl, !.page = "loading"]
    ELSE b

\* The commit of a render of the provider with these states: the instances
\* are unmounted, mounted or kept, and every instance rendered sets the
\* provider's reference in its useImperativeHandle, the modal's last.
commit(legacy, auth, show, provider) ==
    /\ bridges' =
          [ hidden |-> rendered1(bridges.hidden, hiddenMounted(auth),
                                 provider.url),
            modal |-> rendered1(bridges.modal,
                                IF legacy THEN modalMountedLegacy(auth, show)
                                ELSE modalMounted(auth, show),
                                provider.url) ]
    /\ ctxBridge' = IF bridges'.modal.alive THEN "modal"
                    ELSE IF bridges'.hidden.alive THEN "hidden"
                    ELSE "none"
    /\ ctxRef' = (ctxBridge' # "none")

\* what the session leaves alone: the one bridge in detail, and the engine
sessionFrame ==
    << calls, webViewRef, changingChannelRef, readinessResolverRef, inbox,
       page, surfaceVars, slips, hysteresisVars, computed, recommendVars >>

\* openWebView
openWebView(legacy) ==
    /\ ~showWebView
    /\ showWebView' = TRUE
    /\ commit(legacy, authenticated, TRUE, remoteProvider)
    /\ UNCHANGED << providerVars, remoteProvider, storedProvider,
                    loadingProvider, reached >>
    /\ UNCHANGED sessionFrame

\* a variant that signs the session out
closeWebViewSignsOut(legacy) ==
    /\ showWebView
    /\ showWebView' = FALSE
    /\ authenticated' = FALSE
    /\ commit(legacy, FALSE, FALSE, remoteProvider)
    /\ UNCHANGED << webViewLoaded, remoteProvider, storedProvider,
                    loadingProvider, reached >>
    /\ UNCHANGED sessionFrame

\* closeWebView: setShowWebView(false), behind the 'Remote Active' alert when
\* authenticated
closeWebView(legacy) ==
    /\ showWebView
    /\ showWebView' = FALSE
    /\ commit(legacy, authenticated, FALSE, remoteProvider)
    /\ UNCHANGED << providerVars, remoteProvider, storedProvider,
                    loadingProvider, reached >>
    /\ UNCHANGED sessionFrame

\* a variant that leaves authenticated as it is
updateRemoteProviderKeeps(legacy, key) ==
    /\ ~showWebView
    /\ LET provider == REMOTE_PROVIDERS[key] IN
       /\ remoteProvider' = provider
       /\ storedProvider' = IF providerKey(provider) # NoItem
                            THEN providerKey(provider) ELSE storedProvider
       /\ commit(legacy, authenticated, showWebView, provider)
    /\ UNCHANGED << providerVars, showWebView, loadingProvider, reached >>
    /\ UNCHANGED sessionFrame

\* updateRemoteProvider(provider), from the provider buttons of the
\* AuthScreen, which the modal covers while it is shown
updateRemoteProvider(legacy, key) ==
    /\ ~showWebView
    /\ LET provider == REMOTE_PROVIDERS[key] IN
       /\ remoteProvider' = provider
       /\ authenticated' = FALSE
       /\ storedProvider' = IF providerKey(provider) # NoItem
                            THEN providerKey(provider) ELSE storedProvider
       /\ commit(legacy, FALSE, showWebView, provider)
    /\ UNCHANGED << webViewLoaded, showWebView, loadingProvider, reached >>
    /\ UNCHANGED sessionFrame

\* loadProvider of the mount effect, after its getItem
loadProvider(legacy) ==
    /\ loadingProvider
    /\ loadingProvider' = FALSE
    /\ remoteProvider' = IF savedProviderOf(storedProvider) # NoProvider
                         THEN savedProviderOf(storedProvider)
                         ELSE remoteProvider
    /\ commit(legacy, authenticated, showWebView, remoteProvider')
    /\ UNCHANGED << providerVars, showWebView, storedProvider, reached >>
    /\ UNCHANGED sessionFrame

\* The authentication probe of the instance in slot x reports, and
\* handleAuthenticated of the provider renders; the probes run 2 s and more
\* after a load, loadProvider at the mount.
onAuthenticatedOf(legacy, x) ==
    /\ ~loadingProvider
    /\ bridges[x].alive
    /\ bridges[x].page \in {"signin", "remote"}
    /\ handleAuthenticated(bridges[x].page = "remote")
    /\ providerVars' # providerVars
    /\ commit(legacy, authenticated', showWebView, remoteProvider)
    /\ UNCHANGED << showWebView, remoteProvider, storedProvider,
                    loadingProvider, reached >>
    /\ UNCHANGED sessionFrame

\* what changeChannel of the provider comes to: the alert of the check of
\* authenticated, the wait for the reference (and, in the promise-returning
\* version, for webViewLoaded), or the changeChannel of the instance bound
reachOf(legacy) ==
    IF ~authenticated THEN "unauthenticated"
    ELSE IF ctxBridge = "none" THEN "notReady"
    ELSE IF ~legacy /\ ~webViewLoaded THEN "notReady"
    ELSE ctxBridge

\* changeChannel(channelNumber) of the provider, up to the bridge
sessionChangeChannel(legacy) ==
    /\ reached' = reachOf(legacy)
    /\ UNCHANGED << providerVars, ctxRef, showWebView, remoteProvider,
                    storedProvider, loadingProvider, bridges, ctxBridge >>
    /\ UNCHANGED sessionFrame

\* The page of the surface in slot x changes: the load ends on the sign-in
\* page or, with the site's session, on the remote-control page; the user
\* signs in on the surface shown in the modal; the site's session expires.
surfacePage(x, p) ==
    /\ bridges[x].alive
    /\ \/ bridges[x].page = "loading" /\ p \in {"signin", "remote"}
       \/ bridges[x].page = "signin" /\ p = "remote" /\ x = "modal"
       \/ bridges[x].page = "remote" /\ p = "signin"
    /\ bridges' = [bridges EXCEPT ![x].page = p]
    /\ UNCHANGED << providerVars, ctxRef, showWebView, remoteProvider,
                    storedProvider, loadingProvider, ctxBridge, reached >>
    /\ UNCHANGED sessionFrame

\* The platform destroys the surface of the instance in slot x (its content
\* process ends); the WebView is given no handler for it.
surfaceDestroyed(x) ==
    /\ bridges[x].alive
    /\ bridges[x].page # "gone"
    /\ bridges' = [bridges EXCEPT ![x].page = "gone"]
    /\ UNCHANGED << providerVars, ctxRef, showWebView, remoteProvider,
                    storedProvider, loadingProvider, ctxBridge, reached >>
    /\ UNCHANGED sessionFrame

\* The app is started again: the state is the initial one, the stored item
\* is kept.
relaunch ==
    /\ authenticated' = FALSE
    /\ webViewLoaded' = FALSE
    /\ showWebView' = FALSE
    /\ remoteProvider' = REMOTE_PROVIDERS.ROGERS
    /\ loadingProvider' = TRUE
    /\ bridges' = [ hidden |-> Unmounted, modal |-> Unmounted ]
    /\ ctxBridge' = "none"
    /\ ctxRef' = FALSE
    /\ reached' = "none"
    /\ UNCHANGED storedProvider
    /\ UNCHANGED sessionFrame

(***************************************************************************)
(* Environment: the page, the provider's reference, the channel, time      *)
(***************************************************************************)
\* The page of the surface changes: it finishes loading, the user signs in,
\* the session expires, the page is loaded again.
PageChanges(p) ==
    /\ webViewRef
    /\ p # page
    /\ page' = p
    /\ UNCHANGED << providerVars, ctxRef, calls, webViewRef,
                    changingChannelRef, readinessResolverRef, inbox,
                    surfaceVars, slips >>
    /\ UNCHANGED engineVars

\* A render commit detaches the provider's reference, or attaches it again.
RefDetach ==
    /\ ctxRef
    /\ ctxRef' = FALSE
    /\ UNCHANGED << providerVars, calls, webViewRef, changingChannelRef,
                    readinessResolverRef, inbox, page, surfaceVars, slips >>
    /\ UNCHANGED engineVars

RefAttach ==
    /\ ~ctxRef
    /\ webViewRef
    /\ ctxRef' = TRUE
    /\ UNCHANGED << providerVars, calls, webViewRef, changingChannelRef,
                    readinessResolverRef, inbox, page, surfaceVars, slips >>
    /\ UNCHANGED engineVars

\* The k-th unhandled message is lost.
LoseMessage(k) ==
    /\ k \in 1..Len(inbox)
    /\ inbox' = SubSeq(inbox, 1, k - 1) \o SubSeq(inbox, k + 1, Len(inbox))
    /\ UNCHANGED << providerVars, ctxRef, calls, webViewRef,
                    changingChannelRef, readinessResolverRef, page,
                    surfaceVars, slips >>
    /\ UNCHANGED engineVars

\* The countdowns of the armed timers.
Deadlines ==
    { t.left : t \in surfaceTimers }
    \cup { readinessResolverRef.left }
    \cup { calls[i].interval : i \in CallIds }
    \cup { calls[i].timer : i \in CallIds }
    \cup { calls[i].watchdog : i \in CallIds }

ArmedDeadlines == { d \in Deadlines : d >= 0 }

NextDeadline == CHOOSE d \in ArmedDeadlines : \A e \in ArmedDeadlines : d <= e

tick(left, d) == IF left > 0 THEN left - d ELSE left

\* Time passes by d ms; no timer is due and none is stepped over.
Advance(d) ==
    /\ ArmedDeadlines # {}
    /\ 0 \notin ArmedDeadlines
    /\ \/ d = NextDeadline /\ UNCHANGED slips
       \/ d = SlipMs /\ d < NextDeadline /\ slips < MaxSlips
          /\ slips' = slips + 1
    /\ surfaceTimers' = { [t EXCEPT !.left = tick(@, d)] : t \in surfaceTimers }
    /\ readinessResolverRef' =
          [readinessResolverRef EXCEPT !.left = tick(@, d)]
    /\ calls' = [ i \in CallIds |->
                    [calls[i] EXCEPT !.interval = tick(@, d),
                                     !.timer = tick(@, d),
                                     !.watchdog = tick(@, d)] ]
    /\ surfaceClock' = IF surfaceTimers # {} THEN surfaceClock + d
                       ELSE surfaceClock
    /\ UNCHANGED << providerVars, ctxRef, webViewRef, changingChannelRef,
                    inbox, page, channelChangeTimeouts, clickLog >>
    /\ UNCHANGED engineVars

(***************************************************************************)
(* Specification: the bridge under the promise-returning orchestrator      *)
(***************************************************************************)
\* the state after construction, with room for n calls: no bridge yet
InitRest(n) ==
    /\ authenticated = FALSE
    /\ webViewLoaded = FALSE
    /\ calls = [ i \in 1..n |-> NewCall ]
    /\ changingChannelRef = FALSE
    /\ readinessResolverRef = NoResolver
    /\ inbox = << >>
    /\ page = "loading"
    /\ surfaceTimers = {}
    /\ channelChangeTimeouts = << >>
    /\ surfaceClock = 0
    /\ clickLog = << >>
    /\ slips = 0
    /\ monitoring = FALSE
    /\ computed = NoData
    /\ currentChannel = 0
    /\ lastChannelChangeTime = -1
    /\ recommendedChannelRef = 0
    /\ recommendedChannelTimeRef = -1
    /\ monitoringJustStartedRef = FALSE
    /\ pending = << >>
    /\ stableFor = 0
    /\ status = [ loaded |-> FALSE, games |-> << >> ]
    /\ channelConfig = [ gameMappings |-> [ id \in EventIds |-> NoMapping ] ]
    /\ previousGameState = [ id \in EventIds |-> NeverSeen ]
    /\ lastInvoke = NoInvoke
    /\ lastApplied = NoApplied
    /\ remoteProvider = REMOTE_PROVIDERS.ROGERS
    /\ storedProvider = NoItem
    /\ reached = "none"

\* the state once the modal is shown and its bridge is mounted
InitWith(n) ==
    /\ InitRest(n)
    /\ ctxRef = TRUE
    /\ webViewRef = TRUE
    /\ showWebView = TRUE
    /\ loadingProvider = FALSE
    /\ bridges = [ hidden |-> Unmounted,
                   modal |-> mounted(REMOTE_PROVIDERS.ROGERS.url) ]
    /\ ctxBridge = "modal"

Init == InitWith(MaxCalls)

\* the state after the provider is constructed: nothing shown, no bridge
InitSession ==
    /\ InitRest(MaxCalls)
    /\ ctxRef = FALSE
    /\ webViewRef = FALSE
    /\ showWebView = FALSE
    /\ loadingProvider = TRUE
    /\ bridges = [ hidden |-> Unmounted, modal |-> Unmounted ]
    /\ ctxBridge = "none"

BridgeNext ==
    \/ \E t \in surfaceTimers : SurfaceTimerFires(t)
    \/ handleMessage
    \/ AuthReport
    \/ ReadinessTimeout
    \/ \E i \in CallIds : Watchdog(i)
    \/ \E i \in CallIds : NotReadyRetry(i)
    \/ \E p \in Pages : PageChanges(p)
    \/ RefDetach
    \/ RefAttach
    \/ \E k \in 1..MaxInbox : LoseMessage(k)
    \/ \E d \in {SlipMs} \cup ArmedDeadlines : Advance(d)

Next ==
    \/ \E i \in CallIds, n \in Channels : providerChangeChannel(i, n)
    \/ \E i \in CallIds : retryInterval(i)
    \/ BridgeNext

Spec == Init /\ [][Next]_vars

\* the bridge under the boolean orchestrator
NextLegacy ==
    \/ \E i \in CallIds, n \in Channels : legacyChangeChannel(i, n)
    \/ \E i \in CallIds : DeferredRetry(i)
    \/ BridgeNext

SpecLegacy == Init /\ [][NextLegacy]_vars

\* the bridge under three calls for channel 516 of a provider that holds its
\* reference, no message lost
InitCancel == InitWith(MaxCancelCalls)

NextCancel ==
    \/ \E i \in CallIds : providerChangeChannel(i, 516)
    \/ \E t \in surfaceTimers : SurfaceTimerFires(t)
    \/ handleMessage
    \/ AuthReport
    \/ ReadinessTimeout
    \/ \E i \in CallIds : Watchdog(i)
    \/ \E i \in CallIds : NotReadyRetry(i)
    \/ \E p \in Pages : PageChanges(p)
    \/ \E d \in {SlipMs} \cup ArmedDeadlines : Advance(d)

SpecCancel == InitCancel /\ [][NextCancel]_vars

\* the Recommendation Engine; changeChannel is its awaited result
NextEngine ==
    \/ \E rec \in {0} \cup Channels : fetchStatus(rec)
    \/ autoChange
    \/ handleStart
    \/ handleStop
    \/ \E n \in Channels : manualChange(n)
    \/ \E k \in 1..MaxPending, success \in BOOLEAN : applied(k, success)
    \/ \E isAuth \in BOOLEAN : onAuthenticated(isAuth)
    \/ EngineAdvance

SpecEngine == Init /\ [][NextEngine]_vars

\* the auto-change effect with room for two awaited calls, the taps left out
NextOverlap ==
    \/ \E rec \in {0} \cup Channels : fetchStatus(rec)
    \/ autoChange
    \/ handleStart
    \/ handleStop
    \/ \E k \in 1..MaxOverlap, success \in BOOLEAN : applied(k, success)
    \/ \E isAuth \in BOOLEAN : onAuthenticated(isAuth)
    \/ EngineAdvance

SpecOverlap == InitCancel /\ [][NextOverlap]_vars

\* handleStart, the first cycle of the auto-change effect on the changed
\* monitoring, and the provider's changeChannel for the call it makes
startMonitoring(i) ==
    /\ ~monitoring
    /\ authenticated
    /\ computed # NoData
    /\ monitoring' = TRUE
    /\ autoChangeEffect([rendered EXCEPT !.monitoring = TRUE,
                                         !.justStarted = TRUE])
    /\ UNCHANGED lastApplied
    /\ UNCHANGED << computed, stableFor, currentChannel,
                    lastChannelChangeTime >>
    /\ IF pending' # pending
       THEN providerCall(i, computed)
       ELSE UNCHANGED << providerVars, ctxRef, calls, webViewRef,
                         changingChannelRef, readinessResolverRef, inbox,
                         page, surfaceVars, slips >>
    /\ UNCHANGED << recommendVars, sessionVars >>

\* the promise of call i, which the effect awaits, has resolved: the
\* continuation of attemptChange runs
awaited(i) ==
    /\ i = Cardinality({ j \in CallIds : calls[j].pc # "new" })
    /\ calls[i].result # "none"
    /\ Len(pending) = 1
    /\ applied(1, calls[i].result = "true")

\* what happens before monitoring is started: the data are fetched, the
\* surface loads and reports
beforeStart ==
    /\ ~monitoring
    /\ \/ \E rec \in {0} \cup Channels : fetchStatus(rec)
       \/ AuthReport
       \/ \E p \in Pages : PageChanges(p)

\* a monitoring session: its start with the first-cycle call, the provider's
\* retry loop and the bridge for that call, and the stop
NextStop ==
    \/ beforeStart
    \/ \E i \in CallIds : startMonitoring(i)
    \/ handleStop
    \/ \E i \in CallIds : awaited(i)
    \/ \E i \in CallIds : retryInterval(i)
    \/ \E t \in surfaceTimers : SurfaceTimerFires(t)
    \/ handleMessage
    \/ ReadinessTimeout
    \/ \E i \in CallIds : Watchdog(i)
    \/ \E i \in CallIds : NotReadyRetry(i)
    \/ RefDetach
    \/ RefAttach
    \/ \E d \in {SlipMs} \cup ArmedDeadlines : Advance(d)

\* one changeChannel call of the effect is followed
InitStop == InitWith(MaxStopCalls)

SpecStop == InitStop /\ [][NextStop]_vars

\* the mappings of the polled session: event 1 on channel 10, event 2 on 20
PollConfig ==
    [ gameMappings |->
        [ id \in EventIds |->
            IF id = 1 THEN mapping(10, 1) ELSE mapping(20, 2) ] ]

\* what the server reports to the polls: event 1 in play with excitement 50
\* or gone, event 2 in play with one of two plays and excitements or gone
PollGames ==
    { listOf(a, b) :
        a \in { Absent, Game(1, TRUE, 1, 1, 0, 1, FALSE, FALSE, 50) },
        b \in { Absent }
               \cup { Game(2, TRUE, 1, 1, 0, p, FALSE, FALSE, e) :
                        p \in {1, 2}, e \in {55, 80} } }

\* calculateRecommendedChannel(status.games, channelConfig) on what the
\* screen holds; NoData while status is null
recommendationOf(st, config, previous) ==
    IF st.loaded
    THEN calculateRecommendedChannel(st.games, config, previous, 0)
    ELSE NoData

\* the recommendation for what the screen holds after the step, and for how
\* long it has been that one
recommendationKept(age) ==
    /\ computed' = recommendationOf(status', channelConfig', previousGameState')
    /\ stableFor' = IF computed' = computed THEN age ELSE 0

\* what neither a poll nor the passing of time touches
pollLeaves ==
    << providerVars, ctxRef, calls, webViewRef, changingChannelRef,
       readinessResolverRef, inbox, page, surfaceVars, slips, sessionVars >>

\* fetchStatus of the 2 s poll with data.games = games: the per-game state
\* is recorded; the updater of setStatus replaces status if the ids or the
\* excitement scores differ and keeps prevStatus if not; the auto-change
\* effect, which depends on status?.games, runs only on a replaced status.
poll(games) ==
    /\ previousGameState' =
          [ id \in EventIds |->
              IF gameOf(games, id) = Absent THEN previousGameState[id]
              ELSE recorded(gameOf(games, id), previousGameState[id]) ]
    /\ status' = nextStatus(status, games)
    /\ UNCHANGED channelConfig
    /\ recommendationKept(stableFor)
    /\ IF status' # status
       THEN autoChangeEffect([rendered EXCEPT !.rec = computed',
                                              !.stableFor = stableFor'])
       ELSE UNCHANGED << recommendedChannelRef, recommendedChannelTimeRef,
                         monitoringJustStartedRef, pending, lastInvoke >>
    /\ UNCHANGED << monitoring, currentChannel, lastChannelChangeTime,
                    lastApplied >>
    /\ UNCHANGED pollLeaves

\* a poll whose data have the ids and excitement scores of the status held
pollSameScores ==
    \E games \in PollGames :
        /\ status.loaded
        /\ nextStatus(status, games) = status
        /\ poll(games)

\* loadChannelConfig of the mount, and the effect on the changed channelConfig
pollConfigLoaded ==
    /\ channelConfig # PollConfig
    /\ channelConfig' = PollConfig
    /\ UNCHANGED << status, previousGameState >>
    /\ recommendationKept(stableFor)
    /\ autoChangeEffect([rendered EXCEPT !.rec = computed',
                                         !.stableFor = stableFor'])
    /\ UNCHANGED << monitoring, currentChannel, lastChannelChangeTime,
                    lastApplied >>
    /\ UNCHANGED pollLeaves

\* PollStepMs pass (fifteen ticks of the poll); an awaited changeChannel has
\* resolved by MaxResolveMs. No dependency of the effect changes with time.
pollAdvance ==
    /\ \A k \in 1..Len(pending) : pending[k].now + PollStepMs <= MaxResolveMs
    /\ pending' = [ k \in 1..Len(pending) |->
                      [pending[k] EXCEPT !.now = @ + PollStepMs] ]
    /\ lastChannelChangeTime' = older(lastChannelChangeTime, PollStepMs)
    /\ recommendedChannelTimeRef' =
          older(recommendedChannelTimeRef, PollStepMs)
    /\ lastApplied' = [lastApplied EXCEPT !.age = older(@, PollStepMs)]
    /\ previousGameState' =
          [ id \in EventIds |->
              [previousGameState[id] EXCEPT !.lastPlayUpdateTime =
                  IF @ = Null THEN Null
                  ELSE IF @ + PollStepMs > PlayAgeCap THEN PlayAgeCap
                  ELSE @ + PollStepMs] ]
    /\ UNCHANGED << status, channelConfig >>
    /\ recommendationKept(older(stableFor, PollStepMs))
    /\ UNCHANGED << monitoring, currentChannel, recommendedChannelRef,
                    monitoringJustStartedRef, lastInvoke >>
    /\ UNCHANGED pollLeaves

\* the awaited changeChannel of the effect resolves
pollApplied == \E success \in BOOLEAN : applied(1, success)

\* A monitoring session fed by the poll.
NextPoll ==
    \/ \E games \in PollGames : poll(games)
    \/ pollConfigLoaded
    \/ \E isAuth \in BOOLEAN : onAuthenticated(isAuth)
    \/ handleStart
    \/ handleStop
    \/ pollApplied
    \/ pollAdvance

SpecPoll == Init /\ [][NextPoll]_vars

\* The clock runs, an awaited call resolves, and the polls go on; what the
\* polls return is the server's choice, and it may keep the same ids and
\* excitement scores for ever.
SpecPollFair ==
    /\ SpecPoll
    /\ WF_vars(pollAdvance)
    /\ WF_vars(pollApplied)
    /\ WF_vars(pollSameScores)

\* the provider and the instances it renders
SessionNext(legacy) ==
    \/ openWebView(legacy)
    \/ closeWebView(legacy)
    \/ \E k \in 1..Len(ProviderKeys) :
          updateRemoteProvider(legacy, ProviderKeys[k])
    \/ loadProvider(legacy)
    \/ \E x \in Slots : onAuthenticatedOf(legacy, x)
    \/ sessionChangeChannel(legacy)
    \/ \E x \in Slots, p \in Pages : surfacePage(x, p)
    \/ \E x \in Slots : surfaceDestroyed(x)
    \/ relaunch

\* the promise-returning version
NextSession == SessionNext(FALSE)

SpecSession == InitSession /\ [][NextSession]_vars

\* the boolean version
NextSessionLegacy == SessionNext(TRUE)

SpecSessionLegacy == InitSession /\ [][NextSessionLegacy]_vars

\* calculateRecommendedChannel on the games fetched
NextRecommend ==
    \/ fetchGames
    \/ \E config \in Configs : loadChannelConfig(config)
    \/ calculate
    \/ timePasses

SpecRecommend == Init /\ [][NextRecommend]_vars

(***************************************************************************)
(* Properties of the bridge under the promise-returning orchestrator       *)
(***************************************************************************)
\* the calls whose script ran and whose terminal message is still awaited
Dispatched == { i \in CallIds : calls[i].pc = "dispatched" }

\* the live digit / ENTER timers of call i
TimersOf(i) == { t \in surfaceTimers : t.id[1] = i }

\* C1: a changeChannel call that arrives at the bridge while the in-flight
\* flag is set is reported to its caller as a failure, whoever the caller is
\* (Recommendation Engine, manual tap, diagnostic test), and it creates no
\* digit or ENTER timer.
C1_InFlightCallFails ==
    \A i \in CallIds :
        calls[i].outcome = "ignored" =>
            /\ TimersOf(i) = {}
            /\ \A caller \in Callers : seen(calls[i], caller) = "failure"

\* C2: at most one operation is in flight: while an admitted operation
\* awaits its terminal message the in-flight flag is set, and no two
\* operations are in that state together.
C2_AtMostOneInFlight ==
    /\ Cardinality(Dispatched) <= 1
    /\ \A i \in Dispatched : changingChannelRef

\* C3: when the watchdog of a dispatched operation expires with no terminal
\* message handled, the in-flight flag is cleared and the operation ends as
\* a timeout that every caller sees as a failure.
C3_WatchdogFailsOperation ==
    [][ \A i \in CallIds :
          (calls[i].pc = "dispatched" /\ calls[i].watchdog = 0
             /\ calls'[i].watchdog = -1)
          => /\ ~changingChannelRef'
             /\ calls'[i].outcome = "timeout"
             /\ \A caller \in Callers : seen(calls'[i], caller) = "failure"
      ]_vars

\* C4: a finished call that its caller saw succeed is one for which the
\* surface reported channelChanged; a call that was ignored, aborted as not
\* authenticated, ended in channelChangeError or timed out is not seen as a
\* success by any caller.
C4_SuccessImpliesChannelChanged ==
    \A i \in CallIds, caller \in Callers :
        (calls[i].pc = "done" /\ seen(calls[i], caller) = "success")
            => calls[i].outcome = "channelChanged"

\* no timer is armed and no message is unhandled: nothing more will happen
\* to the calls made so far
Quiescent == ArmedDeadlines = {} /\ inbox = << >>

\* C5: no request is left pending: once no timer is armed and no message is
\* unhandled, every call made has reached a final outcome and the in-flight
\* flag is clear.
C5_NoRequestLeftPending ==
    Quiescent =>
        /\ \A i \in CallIds : calls[i].pc \in {"new", "done"}
        /\ ~changingChannelRef

\* the digit clicks a script for channelNumber has made after having run for
\* clock ms: digit j of the number at (j - 1) * 400 ms
ExpectedClicks(channelNumber, clock) ==
    LET ds == digits(channelNumber)
        n == Cardinality({ j \in 1..Len(ds) : (j - 1) * 400 < clock })
    IN  [ j \in 1..n |-> [ vcode |-> NumberVcode(ds[j]), at |-> (j - 1) * 400 ] ]

\* C6: the digits of an operation are clicked in their order at 0, 400, ...,
\* (k - 1) * 400 ms after its script ran, and ENTER is clicked last, at
\* k * 400 + 300 ms (for 516: 0, 400, 800 and 1500 ms): ENTER is pending
\* until then, every digit has been clicked when it is due, and no digit
\* timer outlives it.
C6_DigitOrderAndTiming ==
    \A i \in CallIds :
        TimersOf(i) # {} =>
            LET ds == digits(calls[i].channel)
                k == Len(ds)
                enter == [ id |-> << i, k >>, vcode |-> "ENTER",
                           left |-> k * 400 + 300 - surfaceClock ]
                due == { t \in TimersOf(i) : t.left = 0 }
                clicked == [ j \in 1..Len(clickLog) |->
                               [ vcode |-> clickLog[j].vcode,
                                 at |-> clickLog[j].at ] ]
            IN  /\ surfaceTimers = TimersOf(i)
                /\ enter \in surfaceTimers
                /\ enter.left >= 0
                /\ clicked \o [ j \in 1..Cardinality(due \ {enter}) |->
                                  [ vcode |-> NumberVcode(ds[Len(clicked) + j]),
                                    at |-> surfaceClock ] ]
                      = ExpectedClicks(calls[i].channel, surfaceClock + 1)
                /\ enter.left = 0 => Len(clicked) = k
                /\ (calls[i].channel = 516 /\ enter.left = 0) =>
                      /\ surfaceClock = 1500
                      /\ clicked = << [vcode |-> "NUMBER_5", at |-> 0],
                                      [vcode |-> "NUMBER_1", at |-> 400],
                                      [vcode |-> "NUMBER_6", at |-> 800] >>

\* ENTER of a script for 516 is due, its three digits clicked
C6_Witness ==
    \E i \in CallIds :
        /\ calls[i].channel = 516
        /\ Len(clickLog) = 3
        /\ \E t \in TimersOf(i) : t.vcode = "ENTER" /\ t.left = 0

\* the step is the continuation of a readiness probe on a result that says
\* "not authenticated": the handled probe message, or the 2 s fallback
NotAuthenticatedResult ==
    /\ readinessResolverRef.call # 0
    /\ readinessResolverRef' = NoResolver
    /\ \/ /\ inbox # << >>
          /\ inbox' = Tail(inbox)
          /\ Head(inbox).type = "channelChangeReadiness"
          /\ Head(inbox).ready
          /\ ~Head(inbox).authenticated
       \/ /\ inbox' = inbox
          /\ readinessResolverRef.left = 0

\* the step is a changeChannel call of the orchestrator while its
\* authenticated flag is false
UnauthenticatedCall(i) ==
    ~authenticated /\ calls[i].pc = "new" /\ calls'[i].pc # "new"

\* C7: a changeChannel that finds the session not authenticated (the
\* orchestrator's flag is false, or the readiness probe or its timeout says
\* so) creates no digit or ENTER timer, does not set the in-flight flag, and
\* the call is over: it never gets a timer later.
C7_NotAuthenticatedSchedulesNothing ==
    [][ /\ \A i \in CallIds :
             (UnauthenticatedCall(i)
                \/ (NotAuthenticatedResult /\ readinessResolverRef.call = i))
             => /\ UNCHANGED << surfaceTimers, channelChangeTimeouts >>
                /\ changingChannelRef' = changingChannelRef
                /\ ~changingChannelRef'
                    \/ UnauthenticatedCall(i)
                /\ calls'[i].pc = "done"
                /\ calls'[i].outcome \in {"unauthenticated", "notAuthenticated"}
        /\ \A i \in CallIds :
             calls[i].outcome \in {"unauthenticated", "notAuthenticated"}
             => calls'[i] = calls[i] /\ TimersOf(i) = {}
      ]_vars

\* a probe has ended "not authenticated" on the sign-in page
C7_Witness ==
    \E i \in CallIds :
        calls[i].outcome = "notAuthenticated" /\ page = "signin"

\* C8: a call that finds the bridge not ready retries every 500 ms, at most
\* 20 times; the loop ends at the first attempt that reaches the bridge,
\* which is the call's only one and resolves true, or at the 20th retry, with
\* the 'Remote Not Ready' prompt and false; a call that finds the bridge
\* ready at once makes its one attempt without a loop.
C8_RetryLoopBounded ==
    [][ \A i \in CallIds :
          LET c == calls[i]
              d == calls'[i]
          IN  /\ d.retryCount \in 0..19
              /\ d.bridgeCalls \in 0..1
              /\ d.interval \in -1..500
              /\ d.interval >= 0 <=> d.pc = "interval"
              /\ d.pc = "interval" => d.result = "none" /\ d.bridgeCalls = 0
              /\ (c.pc = "new" /\ d.pc # "new")
                   => (d.pc = "interval" <=> (authenticated /\ ~ctxRef))
              /\ (c.pc = "new" /\ d.pc = "interval")
                   => d.interval = 500 /\ d.retryCount = 0
              /\ (c.pc = "new" /\ d.pc \notin {"new", "interval"})
                   => \/ d.result = "true" /\ d.bridgeCalls = 1
                      \/ d.result = "false" /\ d.bridgeCalls = 0
                            /\ d.outcome = "unauthenticated"
              /\ (c.pc = "interval" /\ d.pc = "interval"
                     /\ d.retryCount # c.retryCount)
                   => /\ c.interval = 0
                      /\ d.interval = 500
                      /\ d.retryCount = c.retryCount + 1
              /\ (c.pc = "interval" /\ d.pc # "interval")
                   => /\ c.interval = 0
                      /\ \/ d.result = "true" /\ d.bridgeCalls = 1
                         \/ /\ d.result = "false"
                            /\ d.bridgeCalls = 0
                            /\ d.outcome = "remoteNotReady"
                            /\ c.retryCount = 19
              /\ c.pc \notin {"new", "interval"}
                   => d.bridgeCalls = c.bridgeCalls /\ d.result = c.result
      ]_vars

\* one call has given up after its 20th retry, another got through
C8_Witness ==
    /\ \E i \in CallIds : calls[i].outcome = "remoteNotReady"
    /\ \E i \in CallIds : calls[i].result = "true"

(***************************************************************************)
(* Properties of the bridge under the boolean orchestrator                 *)
(***************************************************************************)
\* C9: a call that finds no bridge reference returns false and defers one
\* retry by 500 ms; that retry calls the bridge if the reference is there,
\* and only if it is still missing shows the 'Remote Not Ready' prompt; the
\* call is never deferred a second time and reaches the bridge at most once.
C9_OneDeferredRetry ==
    [][ \A i \in CallIds :
          LET c == calls[i]
              d == calls'[i]
          IN  /\ d.bridgeCalls \in 0..1
              /\ (c.pc = "new" /\ d.pc # "new")
                   => (d.pc = "deferred" <=> (authenticated /\ ~ctxRef))
              /\ (c.pc = "new" /\ d.pc = "deferred")
                   => d.timer = 500 /\ d.result = "false" /\ d.bridgeCalls = 0
              /\ (c.pc = "deferred" /\ d.pc = "deferred")
                   => d.timer <= c.timer /\ d.bridgeCalls = 0
              /\ (c.pc = "deferred" /\ d.pc # "deferred")
                   => /\ c.timer = 0
                      /\ IF ctxRef
                         THEN d.bridgeCalls = 1 /\ d.outcome # "remoteNotReady"
                         ELSE /\ d.bridgeCalls = 0
                              /\ d.pc = "done"
                              /\ d.outcome = "remoteNotReady"
              /\ c.pc \notin {"new", "deferred"}
                   => /\ d.pc # "deferred"
                      /\ d.bridgeCalls = c.bridgeCalls
                      /\ d.outcome = "remoteNotReady"
                            => c.outcome = "remoteNotReady"
      ]_vars

\* one deferred retry has ended in the prompt, another has reached the bridge
C9_Witness ==
    /\ \E i \in CallIds : calls[i].outcome = "remoteNotReady"
    /\ \E i \in CallIds :
          calls[i].result = "false" /\ calls[i].bridgeCalls = 1

(***************************************************************************)
(* Properties of the Recommendation Engine                                 *)
(***************************************************************************)
\* C10: the auto-change effect does not call changeChannel for a
\* recommendation that has been the computed one for less than 30 s, so a
\* recommendation that changes with every fetch is never applied (read for
\* the calls made after the stability check; the call of the first cycle
\* after a start is made without one).
C10_NoActuationBeforeStable ==
    lastInvoke.path = "stable" => lastInvoke.stableFor >= 30000

\* C11: an automatic change of the stable path is never applied while less
\* than 30 s have passed since the change applied before it (the cooldown
\* between two applied changes).
C11_CooldownBetweenApplied == ~lastApplied.early

\* C12: the first recommendation computed after monitoring starts is handed to
\* changeChannel in that very cycle, whatever the time for which it has been
\* the recommendation and whatever the time since the last change.
C12_FirstRecommendationBypasses ==
    [][ ( /\ (~monitoring /\ monitoring')
             \/ (monitoringJustStartedRef /\ ~monitoringJustStartedRef')
          /\ monitoring' /\ authenticated'
          /\ computed' \notin {NoData, 0} )
        => /\ ~monitoringJustStartedRef'
           /\ lastInvoke'.path = "bypass"
           /\ lastInvoke'.stableFor = stableFor'
           /\ Len(pending') > 0
           /\ pending'[Len(pending')] = attemptChange(computed', "bypass") ]_vars

\* a start whose recommendation is new and follows a change at once
C12_Witness ==
    /\ lastInvoke.path = "bypass"
    /\ lastInvoke.stableFor = 0
    /\ Len(pending) = 1 /\ pending[1].path = "bypass" /\ pending[1].now = 0
    /\ lastChannelChangeTime = 0

\* C13: every call of changeChannel by the auto-change effect, first cycle
\* after a start included, is for a channel other than the current one.
C13_InvokedChannelDiffers ==
    lastInvoke.path \in {"bypass", "stable"} => ~lastInvoke.tuned

\* the state the claim C14 is about
tuning ==
    << currentChannel, lastChannelChangeTime, recommendedChannelRef,
       recommendedChannelTimeRef >>

\* C14: a changeChannel that reports failure leaves the current channel, the
\* time of the last change and the recommended channel with its time as they
\* are; one of the auto-change effect that reports success makes its channel
\* the current one and writes the time of the last change; and the current
\* channel and the time of the last change are written by no other step.
C14_FailureLeavesState ==
    [][ /\ \A k \in 1..Len(pending) :
              /\ applied(k, FALSE) => UNCHANGED tuning
              /\ (applied(k, TRUE) /\ pending[k].path # "manual")
                    => /\ currentChannel' = pending[k].channel
                       /\ lastChannelChangeTime' = pending[k].now
        /\ (currentChannel' # currentChannel)
              => \E k \in 1..Len(pending) : applied(k, TRUE)
        /\ (lastChannelChangeTime' # lastChannelChangeTime)
              => EngineAdvance \/ \E k \in 1..Len(pending) : applied(k, TRUE)
      ]_vars

\* a call of the stable path has failed, and its conditions hold as before
C14_Witness ==
    /\ lastApplied.failed
    /\ lastInvoke.path = "stable"
    /\ pending = << >>
    /\ recommendedChannelRef = computed
    /\ recommendedChannelTimeRef >= CHANNEL_STABILITY_MS
    /\ currentChannel # computed

\* C20: the recommended channel and the time it became the recommendation
\* are both unset or both set in every state, the states in which a
\* changeChannel of the effect is awaited included.
C20_PairSetTogether ==
    (recommendedChannelRef = 0) <=> (recommendedChannelTimeRef = Null)

\* the pair is set while a call of the stable path is awaited, and a time
\* after the call was made
C20_Witness ==
    /\ Len(pending) = 1 /\ pending[1].path = "stable" /\ pending[1].now > 0
    /\ recommendedChannelRef # 0
    /\ recommendedChannelTimeRef # Null

(***************************************************************************)
(* Properties of calculateRecommendedChannel                               *)
(***************************************************************************)
\* the recommendation for the state's games, read elapsed ms later
recommendAt(elapsed) ==
    calculateRecommendedChannel(status.games, channelConfig,
                                previousGameState, elapsed)

\* the candidates of the state's games
survivors == candidates(status.games, channelConfig, previousGameState, 0)

channelOf(game) == channelConfig.gameMappings[game.event_id].channel
priorityOf(game) == channelConfig.gameMappings[game.event_id].priority

\* the effect has calculated on the state's games
Calculated == status.loaded /\ computed = recommendAt(0)

\* C15: for the same games, mappings and per-game state the recommendation
\* is the same whenever it is calculated: now, or PlayStepMs later.
C15_RecommendDeterministic ==
    status.loaded => recommendAt(0) = recommendAt(PlayStepMs)

\* C16: a candidate whose excitement is at least 30 above that of every other
\* candidate is the recommendation, whatever the priorities.
C16_HighExcitementWins ==
    status.loaded /\ (\E id \in EventIds : channelConfig.gameMappings[id].mapped)
    => \A k \in 1..Len(survivors) :
          (\A j \in 1..Len(survivors) \ {k} :
               survivors[k].game_excitement_score
                   >= survivors[j].game_excitement_score + 30)
          => recommendAt(0) = channelOf(survivors[k])

\* two candidates, the one of the lower priority 30 above the other, and the
\* effect has calculated
C16_Witness ==
    /\ Calculated
    /\ Len(survivors) = 2
    /\ survivors[2].game_excitement_score
           >= survivors[1].game_excitement_score + 30
    /\ priorityOf(survivors[2]) > priorityOf(survivors[1])
    /\ computed = channelOf(survivors[2])

\* excitement + (10 - priority) * 10
combined(game) == game.game_excitement_score + (10 - priorityOf(game)) * 10

\* the excitement range of the candidates is below 30
closeScores ==
    \A j, k \in 1..Len(survivors) :
        survivors[k].game_excitement_score
            - survivors[j].game_excitement_score < 30

\* C17: with an excitement range below 30 the recommendation is the first of
\* the candidates with the highest excitement + (10 - priority) * 10; for
\* A (excitement 50, priority 1, channel 10) and B (excitement 55, priority
\* 2, channel 20) that is 140 against 135 and channel 10.
C17_PriorityTieBreak ==
    ( /\ status.loaded
      /\ \E id \in EventIds : channelConfig.gameMappings[id].mapped
      /\ survivors # << >>
      /\ closeScores )
    => /\ \E k \in 1..Len(survivors) :
              /\ recommendAt(0) = channelOf(survivors[k])
              /\ \A j \in 1..Len(survivors) :
                    combined(survivors[j]) <= combined(survivors[k])
              /\ \A j \in 1..(k - 1) :
                    combined(survivors[j]) < combined(survivors[k])
       /\ ( /\ Len(survivors) = 2
            /\ survivors[1].game_excitement_score = 50
            /\ priorityOf(survivors[1]) = 1 /\ channelOf(survivors[1]) = 10
            /\ survivors[2].game_excitement_score = 55
            /\ priorityOf(survivors[2]) = 2 /\ channelOf(survivors[2]) = 20 )
          => /\ combined(survivors[1]) = 140
             /\ combined(survivors[2]) = 135
             /\ recommendAt(0) = 10

\* the candidates A and B of the claim, and the effect has calculated
C17_Witness ==
    /\ Calculated
    /\ Len(survivors) = 2
    /\ survivors[1].game_excitement_score = 50
    /\ priorityOf(survivors[1]) = 1 /\ channelOf(survivors[1]) = 10
    /\ survivors[2].game_excitement_score = 55
    /\ priorityOf(survivors[2]) = 2 /\ channelOf(survivors[2]) = 20
    /\ computed = 10

\* the game's down and distance are those recorded for it
sameDown(game) ==
    /\ previousGameState[game.event_id].seen
    /\ previousGameState[game.event_id].down = game.down
    /\ previousGameState[game.event_id].distance = game.distance

\* the game's play marker is the one recorded for it, or one of them is
\* absent
samePlay(game) ==
    \/ game.play_sequence = NoPlay
    \/ previousGameState[game.event_id].play_sequence = NoPlay
    \/ previousGameState[game.event_id].play_sequence = game.play_sequence

\* live, mapped, and started: in a quarter, or with a down, a score or a
\* play marker
liveMappedStarted(game) ==
    /\ game.is_live
    /\ channelConfig.gameMappings[game.event_id].mapped
    /\ \/ game.quarter > 0
       \/ game.down # NoDown
       \/ game.home_score > 0 \/ game.away_score > 0
       \/ game.play_sequence # NoPlay

onlyLiveMapped(k) ==
    \A j \in 1..Len(status.games) \ {k} :
        ~(status.games[j].is_live
              /\ channelConfig.gameMappings[status.games[j].event_id].mapped)

\* the game is no candidate, the recommendation is a candidate's channel if
\* there is one, and else the channel of the live, mapped game with the
\* lowest priority number
scoredOut(k) ==
    /\ \A j \in 1..Len(survivors) : survivors[j] # status.games[k]
    /\ survivors # << >>
          => \E j \in 1..Len(survivors) :
                 recommendAt(0) = channelOf(survivors[j])

\* C18 as stated: a live, mapped game whose down and distance are those of
\* the previous tick and whose timeout flag is set is no candidate; if it
\* is the only live mapped game, its channel is recommended by the fallback.
C18_TimeoutExcluded ==
    status.loaded
    => \A k \in 1..Len(status.games) :
          LET game == status.games[k] IN
          ( /\ game.is_live
            /\ channelConfig.gameMappings[game.event_id].mapped
            /\ sameDown(game) /\ game.is_timeout )
          => /\ scoredOut(k)
             /\ onlyLiveMapped(k) => recommendAt(0) = channelOf(game)

\* C18, amended: a live, mapped, started game for which no new play is
\* detected (down and distance and the play marker are those recorded) and
\* whose timeout flag is set is no candidate; if it is the only live mapped
\* game, its channel is recommended by the fallback.
C18_TimeoutExcludedNoNewPlay ==
    status.loaded
    => \A k \in 1..Len(status.games) :
          LET game == status.games[k] IN
          ( /\ liveMappedStarted(game)
            /\ sameDown(game) /\ samePlay(game) /\ game.is_timeout )
          => /\ scoredOut(k)
             /\ onlyLiveMapped(k) => recommendAt(0) = channelOf(game)

\* a game in a timeout with the higher excitement, and the other game
\* recommended; the effect has calculated
C18_Witness ==
    /\ Calculated
    /\ Len(status.games) = 2
    /\ liveMappedStarted(status.games[2])
    /\ sameDown(status.games[2]) /\ samePlay(status.games[2])
    /\ status.games[2].is_timeout
    /\ status.games[2].game_excitement_score = 80
    /\ Len(survivors) = 1
    /\ computed = channelOf(status.games[1])

\* C19: a recommended channel is the mapped channel of a game of status.games
\* that is live and has started (in a quarter, or with a down, a score or a
\* play marker).
C19_RecommendedIsLiveStartedMapped ==
    (status.loaded /\ recommendAt(0) # 0)
    => \E k \in 1..Len(status.games) :
          /\ liveMappedStarted(status.games[k])
          /\ recommendAt(0) = channelOf(status.games[k])

\* a mapped game that is not live, another that is, and the effect has
\* calculated
C19_Witness ==
    /\ Calculated
    /\ Len(status.games) = 2
    /\ ~status.games[1].is_live
    /\ channelConfig.gameMappings[1].mapped
    /\ channelConfig.gameMappings[1].priority = 1
    /\ computed = channelOf(status.games[2])

(***************************************************************************)
(* Properties of the monitoring session                                    *)
(***************************************************************************)
\* C21: the step that stops monitoring leaves the recommended channel, the
\* time it became the recommendation and the time of the last change unset,
\* the first-cycle flag clear and no per-game state recorded.
C21_StopResetsState ==
    [][ (monitoring /\ ~monitoring')
        => /\ recommendedChannelRef' = 0
           /\ recommendedChannelTimeRef' = Null
           /\ lastChannelChangeTime' = Null
           /\ ~monitoringJustStartedRef'
           /\ previousGameState' = [ id \in EventIds |-> NeverSeen ] ]_vars

(***************************************************************************)
(* Properties of the readiness handshake                                   *)
(***************************************************************************)
\* the calls whose readiness probe has not resolved
Probing == { i \in CallIds : calls[i].pc = "probing" }

\* C22: at most one readiness probe is outstanding: no probe is issued while
\* the promise of another has not resolved.
C22_OneOutstandingProbe == Cardinality(Probing) <= 1

\* the step handles the readiness message at the head of the inbox
HandlesReadiness ==
    /\ inbox # << >>
    /\ Head(inbox).type = "channelChangeReadiness"
    /\ webViewRef
    /\ inbox' = Tail(inbox)

\* C23: a probe resolves once: its resolver is the stored one until it does,
\* and it resolves either on the readiness message of its own script, with
\* what that message carries, or on its 2 s timer with ready and not
\* authenticated; a readiness message handled when the probe it belongs to
\* is no longer pending changes nothing.
C23_ProbeResolvesOnce ==
    [][ /\ \A i \in Probing : readinessResolverRef.call = i
        /\ \A i \in Probing :
              calls'[i].pc # "probing"
              => \/ /\ HandlesReadiness
                    /\ Head(inbox).op = i
                    /\ calls'[i].pc = "notReadyWait" <=> ~Head(inbox).ready
                    /\ calls'[i].outcome = "notAuthenticated"
                          <=> (Head(inbox).ready /\ ~Head(inbox).authenticated)
                 \/ /\ readinessResolverRef.left = 0
                    /\ inbox' = inbox
                    /\ calls'[i].outcome = "notAuthenticated"
        /\ (HandlesReadiness /\ Head(inbox).op # readinessResolverRef.call)
              => UNCHANGED << calls, readinessResolverRef, changingChannelRef,
                              surfaceVars >>
      ]_vars

(***************************************************************************)
(* Properties of the injected script's timers                              *)
(***************************************************************************)
\* the step runs the script of call i
Scheduled(i) == calls[i].pc # "dispatched" /\ calls'[i].pc = "dispatched"

\* C24: the script of a new operation leaves no digit or ENTER timer of an
\* earlier operation alive: after the step that schedules it the live timers
\* are its own, all of them, and a timer that fires is one of the script that
\* ran last.
C24_NewOperationClearsTimers ==
    [][ /\ \A i \in CallIds :
              Scheduled(i)
              => /\ surfaceTimers' = scriptTimers(i, calls[i].channel)
                 /\ channelChangeTimeouts' =
                       scriptTimeoutIds(i, calls[i].channel)
        /\ \A t \in surfaceTimers :
              (t.left = 0 /\ t \notin surfaceTimers')
              => t.id \in Range(channelChangeTimeouts)
      ]_vars

\* the script of one call runs, its timers alive, and the timers of another
\* call whose ENTER was not due yet are gone
C24_Witness ==
    \E i, j \in CallIds :
        /\ i # j
        /\ TimersOf(i) # {}
        /\ calls[j].pc = "dispatched"
        /\ calls[j].watchdog > WatchdogSlackMs
        /\ TimersOf(j) = {}

(***************************************************************************)
(* Properties of the Session Orchestrator                                  *)
(***************************************************************************)
\* updateRemoteProvider of either version, for the provider under this key
selectProvider(key) == \E legacy \in BOOLEAN : updateRemoteProvider(legacy, key)

\* the instances that are mounted
Alive == { x \in Slots : bridges[x].alive }

C27_OneLiveBridge == Cardinality(Alive) <= 1

\* C28: when the surface of the instance that is bound to the provider's
\* reference is destroyed while the session is authenticated, the
\* authenticated flag is false after that step, and in no state is the flag
\* true over a bound surface that is gone.
C28_SessionLostResets ==
    [][ /\ \A x \in Slots :
              (authenticated /\ ctxBridge = x /\ surfaceDestroyed(x))
              => ~authenticated'
        /\ (authenticated /\ ctxBridge # "none")
              => bridges[ctxBridge].page # "gone" ]_vars

\* C29: when fetchStatus replaces the status, every live, mapped, started
\* game of the new status for which a new play is detected against the state
\* recorded at the previous tick, and whose timeout or score-just-changed
\* flag is set, is among the candidates of the calculation on that status.
C29_NewPlayKept ==
    [][ status' # status
        => \A k \in 1..Len(status'.games) :
              LET game == status'.games[k]
                  cands == candidates(status'.games, channelConfig,
                                      previousGameState', 0)
              IN  ( /\ eligible(game, channelConfig)
                    /\ hasNewPlay(game, previousGameState[game.event_id])
                    /\ game.is_timeout \/ game.score_just_changed )
                  => \E j \in 1..Len(cands) : cands[j] = game ]_vars

\* the games of the state that are live, mapped and started
Eligible == { k \in 1..Len(status.games) : liveMappedStarted(status.games[k]) }

\* C30: whenever it is calculated, the recommendation is none only if no
\* game of the status is live, started and mapped; and when there are such
\* games and the commercial filter leaves no candidate, it is the channel of
\* the one of them with the lowest priority number.
C30_NoneOnlyWithoutEligible ==
    status.loaded
    => \A elapsed \in {0, PlayStepMs} :
          LET cands == candidates(status.games, channelConfig,
                                  previousGameState, elapsed)
          IN  /\ recommendAt(elapsed) = 0 => Eligible = {}
              /\ (Eligible # {} /\ cands = << >>)
                    => \E k \in Eligible :
                          /\ recommendAt(elapsed) = channelOf(status.games[k])
                          /\ \A j \in Eligible :
                                priorityOf(status.games[k])
                                    <= priorityOf(status.games[j])

\* both games are live, mapped and started and both are filtered out, the
\* second has the lower priority number, and the effect has calculated its
\* channel
C30_Witness ==
    /\ Calculated
    /\ Len(status.games) = 2
    /\ Eligible = {1, 2}
    /\ survivors = << >>
    /\ priorityOf(status.games[2]) < priorityOf(status.games[1])
    /\ computed = channelOf(status.games[2])

(***************************************************************************)
(* Properties of the final-down rule                                       *)
(***************************************************************************)
\* the game is among the candidates of the calculation made elapsed ms
\* after the state
candidateAt(game, elapsed) ==
    LET cands == candidates(status.games, channelConfig, previousGameState,
                            elapsed)
    IN  \E j \in 1..Len(cands) : cands[j] = game

\* C31: a live, mapped, started game on 4th down whose timeout and
\* score-just-changed flags are clear is no candidate exactly when the last
\* play update recorded for it is more than 60 s old and no new play is
\* detected; with an update at most 60 s old, or with no state recorded for
\* the game, it is a candidate.
C31_FinalDownRule ==
    status.loaded
    => \A elapsed \in {0, PlayStepMs} :
          \A k \in 1..Len(status.games) :
              LET game == status.games[k]
                  previousState == previousGameState[game.event_id]
                  age == previousState.lastPlayUpdateTime + elapsed
              IN  ( /\ liveMappedStarted(game)
                    /\ game.down = 4
                    /\ ~game.is_timeout /\ ~game.score_just_changed )
                  => /\ ~candidateAt(game, elapsed)
                           <=> /\ previousState.lastPlayUpdateTime # Null
                               /\ age > 60000
                               /\ ~hasNewPlay(game, previousState)
                     /\ ~previousState.seen => candidateAt(game, elapsed)

\* a game on 4th down with its last play update more than 60 s old is
\* dropped, and the effect has calculated the other game's channel
C31_Witness ==
    /\ Calculated
    /\ Len(status.games) = 2
    /\ liveMappedStarted(status.games[1])
    /\ liveMappedStarted(status.games[2])
    /\ status.games[1].down = 4
    /\ ~status.games[1].is_timeout /\ ~status.games[1].score_just_changed
    /\ previousGameState[1].lastPlayUpdateTime > 60000
    /\ ~candidateAt(status.games[1], 0)
    /\ computed = channelOf(status.games[2])

(***************************************************************************)
(* Properties of the monitoring session, continued                         *)
(***************************************************************************)
\* this step makes a changeChannel call of the screen on path
newCall(path) ==
    /\ pending' # pending
    /\ Len(pending') > 0
    /\ pending'[Len(pending')].path = path
    /\ pending'[Len(pending')].now = 0
    /\ \A k \in 1..Len(pending) : pending' # without(pending, k)

\* a call of the first cycle is made in the step that starts monitoring, or
\* with the first-cycle flag set, and leaves the flag clear
bypassOneShot ==
    newCall("bypass")
    => /\ (~monitoring /\ monitoring') \/ monitoringJustStartedRef
       /\ ~monitoringJustStartedRef'

\* a call made after the first cycle is for a recommendation that has been
\* the computed one for 30 s, and is not applied less than 30 s after the
\* change applied before it
laterInWindows ==
    /\ newCall("stable") => lastInvoke'.stableFor >= CHANNEL_STABILITY_MS
    /\ ~lastApplied'.early

\* C32: per start of monitoring at most one call of changeChannel is made
\* without the stability and cooldown checks, and every automatic change
\* after it keeps both windows.
C32_BypassOneShot == [][ bypassOneShot /\ laterInWindows ]_vars

\* the one-shot part alone
C32_OneShotOnly == [][ bypassOneShot ]_vars

\* C33: while monitoring is off, no changeChannel call of the auto-change
\* effect is handed to the bridge: neither a new one, nor one that the
\* provider's retry loop holds since before the stop.
C33_NoDispatchAfterStop ==
    [][ (~monitoring /\ ~monitoring')
        => \A i \in CallIds : calls'[i].bridgeCalls = calls[i].bridgeCalls
      ]_vars

(***************************************************************************)
(* Properties of the polled monitoring session                             *)
(***************************************************************************)
\* monitoring and authenticated, with a recommendation that has been the
\* same for 30 s, is not the current channel, and the cooldown over
dueForChange ==
    /\ monitoring /\ authenticated
    /\ computed \notin {NoData, 0}
    /\ stableFor >= CHANNEL_STABILITY_MS
    /\ computed # currentChannel
    /\ ~cooldownActive(rendered)

\* the effect has passed the recommendation to changeChannel
passedOn ==
    \E k \in 1..Len(pending) :
        pending[k].path # "manual" /\ pending[k].channel = computed

\* C34: while monitoring is on and the session is authenticated, a
\* recommendation that has been the same for 30 s, with the cooldown over
\* and another channel tuned, is eventually passed to changeChannel (or
\* ceases to be due), whatever the polls return.
C34_StableEventuallyPassed == dueForChange ~> (passedOn \/ ~dueForChange)

\* the changeChannel calls of the auto-change effect that are still awaited
ownOutstanding ==
    { k \in 1..Len(pending) : pending[k].path \in {"bypass", "stable"} }

\* C35: the auto-change effect never has two changeChannel calls of its own
\* awaited at once: a poll that arrives while a call of the effect is still
\* awaited starts no other call.
C35_OneOwnRequest ==
    [][ ownOutstanding # {} /\ (\E rec \in {0} \cup Channels : fetchStatus(rec))
            => Len(pending') <= Len(pending) ]_vars

(***************************************************************************)
(* Properties of the injected script                                       *)
(***************************************************************************)
\* the ENTER timer t fires and posts channelChanged
reportsChanged(t) ==
    t.vcode = "ENTER" /\ SurfaceTimerFires(t) /\ buttonFound

\* C36: the surface posts channelChanged only if every digit click of the
\* operation found its control.
C36_ChangedOnlyIfDigitsClicked ==
    [][ \A t \in surfaceTimers :
            reportsChanged(t)
                => \A k \in 1..Len(clickLog) : clickLog[k].found ]_vars

\* the script of call i is injected and runs
scriptRuns(i) ==
    calls[i].pc # "dispatched" /\ calls'[i].pc = "dispatched"

\* the digit controls activated by the script whose ENTER has not fired yet
digitsEntered ==
    { k \in 1..Len(clickLog) :
        clickLog[k].vcode # "ENTER" /\ clickLog[k].found }

\* C37: the activations on the surface are a concatenation of complete
\* operations: when the script of an operation runs, no digit has been
\* activated since the last ENTER, so that its ENTER follows its own digits
\* only.
C37_CompleteOperations ==
    [][ \A i \in CallIds : scriptRuns(i) => digitsEntered = {} ]_vars

(***************************************************************************)
(* Properties of the orchestrator's report to its caller                   *)
(***************************************************************************)
\* C38: a changeChannel call of the orchestrator that has reported failure
\* to its caller has handed no channel change to the bridge, and hands none
\* later.
C38_FailureDispatchesNothing ==
    \A i \in CallIds : calls[i].result = "false" => calls[i].bridgeCalls = 0

(***************************************************************************)
(* Properties of the in-flight flag                                        *)
(***************************************************************************)
\* handleMessage handles a channelChanged or channelChangeError message
terminalHandled ==
    /\ handleMessage
    /\ Head(inbox).type \in {"channelChanged", "channelChangeError"}

\* C39: the in-flight flag is cleared only by the handling of a terminal
\* message (channelChanged, channelChangeError) or by a watchdog; a failed
\* dispatch sets and resets it in one turn.  The handling of any other
\* message, the click reports of the script and the authentication reports
\* among them, leaves a set flag set.
C39_FlagClearedOnlyByTerminal ==
    [][ (changingChannelRef /\ ~changingChannelRef')
            => (terminalHandled \/ \E i \in CallIds : Watchdog(i)) ]_vars

\* Two calls have probed and the readiness messages of both have been
\* handled: the first started the operation that is in flight, the second
\* was handled while the flag was set, and the flag is still set.
C39_Witness ==
    /\ changingChannelRef
    /\ inbox = << >>
    /\ readinessResolverRef = NoResolver
    /\ \E i \in CallIds : calls[i].pc = "probing"
    /\ \E i \in CallIds : calls[i].pc = "dispatched"

(***************************************************************************)
(* Properties of the manual change                                         *)
(***************************************************************************)
\* the last change applied was a manual one, less than 30 s ago
manualCooldown ==
    /\ lastApplied.manual
    /\ lastApplied.age # Null
    /\ lastApplied.age < CHANNEL_CHANGE_COOLDOWN_MS

\* C40: a manual change that succeeds sets the current channel and the time
\* of the last change, whatever the stability and the cooldown, and no change
\* of the stable path is applied less than 30 s after it.
C40_ManualRestartsCooldown ==
    [][ \A k \in 1..Len(pending) :
            applied(k, TRUE)
                => /\ pending[k].path = "manual"
                      => /\ currentChannel' = pending[k].channel
                         /\ lastChannelChangeTime' = pending[k].now
                   /\ pending[k].path = "stable" => ~manualCooldown ]_vars

\* the first part alone
C40_ManualSetsChannel ==
    [][ \A k \in 1..Len(pending) :
            (applied(k, TRUE) /\ pending[k].path = "manual")
                => /\ currentChannel' = pending[k].channel
                   /\ lastChannelChangeTime' = pending[k].now ]_vars

====
